------------------------------ MODULE ConfigFile ------------------------------
(***************************************************************************)
(* util/config_file: the reader of sfrp.conf, the tree of values it builds *)
(* and what lookups and dump() make of the tree.  A text is a sequence of  *)
(* words, a line is its key, the words before the comment mark and whether *)
(* there is one; a line without a value delimiter has the key <<>>.        *)
(***************************************************************************)
EXTENDS Integers, Sequences, SequencesExt, TLC

CONSTANTS
    Files,              \* the files to read, [lines, nl, found]: nl iff its last line ends
    StaleIndex          \* what an uninitialised index may hold

VARIABLES
    file,               \* what was written
    input,              \* what is being read: file, or what dump() made of it
    pos,                \* lines taken from it
    is,                 \* state of the stream: "good", "eof" or "fail"
    line, nextline,     \* read(): the key line at hand and the line read ahead
    contents_,          \* root key -> value
    rpc,                \* where read() is
    dumped              \* contents_ is being read back from dump()

configVars == <<file, input, pos, is, line, nextline, contents_, rpc, dumped>>

NoWords == <<>>
Empty   == [key |-> <<>>, text |-> NoWords, comment |-> FALSE]

(* Elements of a key: its name, then .name or [index]; index -1 is no number. *)
Name(n)  == [k |-> "record", n |-> n, i |-> 0]
Index(i) == [k |-> "array", n |-> "", i |-> i]

-------------------------------------------------------------------------------
(* The tree.  value() leaves type_ unset. *)
Types    == {"invalid", "raw", "array", "record"}
Value(t) == [type |-> t, raw |-> NoWords, array |-> <<>>, record |-> <<>>]

(* parse_array(): the index, or on failure whatever the variable held. *)
parse_array(e) == IF e.i >= 0 THEN {e.i} ELSE StaleIndex

(* vector::resize(): the new elements are copies of one value(). *)
Resize(a, n, t) == IF n <= Len(a) THEN a ELSE a \o [j \in 1 .. n - Len(a) |-> Value(t)]

RECURSIVE parse_key(_, _, _)

(* The values that parse_key() may make of value: the type is overwritten, the
   other members of the value stay behind it. *)
parse_key(value, key, text) ==
  IF key = <<>> THEN {[value EXCEPT !.type = "raw", !.raw = text]}
  ELSE LET e == Head(key) IN
       IF e.k = "array"
       THEN UNION {LET a == Resize(value.array, i + 1, t)
                   IN  {[value EXCEPT !.type = "array", !.array = [a EXCEPT ![i + 1] = v]] :
                          v \in parse_key(a[i + 1], Tail(key), text)} :
                     i \in parse_array(e), t \in Types}
       ELSE LET old == IF e.n \in DOMAIN value.record THEN value.record[e.n] ELSE Value("invalid")
            IN  {[value EXCEPT !.type = "record", !.record = (e.n :> v) @@ @] :
                   v \in parse_key(old, Tail(key), text)}

(* value::operator[] and value::get(): the member, where the checks pass. *)
Member(value, e) ==
  IF e.k = "array"
  THEN IF value.type = "array" /\ e.i < Len(value.array) THEN {value.array[e.i + 1]} ELSE {}
  ELSE IF value.type = "record" /\ e.n \in DOMAIN value.record THEN {value.record[e.n]} ELSE {}

RECURSIVE At(_, _)
At(value, path) ==
  IF path = <<>> THEN {value} ELSE UNION {At(v, Tail(path)) : v \in Member(value, Head(path))}

(* config_file::operator[] and get(), followed by those of the values. *)
Lookup(path) ==
  IF Head(path).n \in DOMAIN contents_ THEN At(contents_[Head(path).n], Tail(path)) ELSE {}

(* value::read<T>() needs a raw value and aborts otherwise. *)
Readable(path) == \E v \in Lookup(path) : v.type = "raw"
Raw(path)      == (CHOOSE v \in Lookup(path) : TRUE).raw

(* value::get_array_size() does not look at the type. *)
get_array_size(path) == IF Lookup(path) = {} THEN 0 ELSE Len((CHOOSE v \in Lookup(path) : TRUE).array)

(* string_as_T<bool>(). *)
AsBool(text) == text \notin {<<w>> : w \in {"false", "f", "no", "n", "0", "none"}}

-------------------------------------------------------------------------------
(* read(). *)

(* std::getline(): a stream at its end fails and leaves the string as it was. *)
Getline(old) ==
  IF is # "good" THEN [str |-> old, pos |-> pos, is |-> "fail"]
  ELSE IF pos = Len(input.lines) THEN [str |-> Empty, pos |-> pos, is |-> "fail"]
  ELSE [str |-> input.lines[pos + 1], pos |-> pos + 1,
        is  |-> IF pos + 1 = Len(input.lines) /\ ~input.nl THEN "eof" ELSE "good"]

Uncommented(l) == [l EXCEPT !.comment = FALSE]

ReadLine_Keep ==                            \* mutant: the line read ahead stays
  /\ rpc = "line"
  /\ is # "fail" \/ nextline # Empty
  /\ LET g == IF nextline # Empty THEN [str |-> nextline, pos |-> pos, is |-> is]
              ELSE Getline(Empty)
     IN  /\ pos' = g.pos /\ is' = g.is
         /\ line' = Uncommented(g.str)
         /\ rpc' = IF g.str.key # <<>> THEN "more" ELSE "line"
  /\ UNCHANGED <<file, input, nextline, contents_, dumped>>

(* The outer loop: the line read ahead or the next one, without its comment. *)
ReadLine ==
  /\ rpc = "line"
  /\ is # "fail" \/ nextline # Empty
  /\ LET g == IF nextline # Empty THEN [str |-> nextline, pos |-> pos, is |-> is]
              ELSE Getline(Empty)
         l == Uncommented(g.str)
     IN  /\ pos' = g.pos /\ is' = g.is
         /\ nextline' = Empty
         /\ line' = l
         /\ rpc' = IF l.key # <<>> THEN "more" ELSE "line"
  /\ UNCHANGED <<file, input, contents_, dumped>>

ReadDone ==
  /\ rpc = "line" /\ is = "fail" /\ nextline = Empty
  /\ rpc' = "done"
  /\ UNCHANGED <<file, input, pos, is, line, nextline, contents_, dumped>>

Continued(l, next) ==
  [l EXCEPT !.text = IF next.text = NoWords THEN @ ELSE @ \o <<"\n">> \o next.text]

ReadMore_KeepAhead ==                       \* mutant: a key line ends nothing
  /\ rpc = "more"
  /\ LET g == Getline(nextline) next == Uncommented(g.str)
     IN  IF is = "fail" \/ g.str = Empty
         THEN /\ rpc' = "store"
              /\ UNCHANGED <<pos, is, nextline, line>>
         ELSE /\ pos' = g.pos /\ is' = g.is
              /\ nextline' = next
              /\ line' = Continued(line, next)
              /\ UNCHANGED rpc
  /\ UNCHANGED <<file, input, contents_, dumped>>

(* The inner loop: a value goes on until a blank line, a key or the end. *)
ReadMore ==
  /\ rpc = "more"
  /\ IF is = "fail"
     THEN /\ rpc' = "store"
          /\ UNCHANGED <<pos, is, nextline, line>>
     ELSE LET g == Getline(nextline) next == Uncommented(g.str)
          IN  /\ pos' = g.pos /\ is' = g.is
              /\ nextline' = next
              /\ IF g.str = Empty \/ next.key # <<>>
                 THEN rpc' = "store" /\ UNCHANGED line
                 ELSE line' = Continued(line, next) /\ UNCHANGED rpc
  /\ UNCHANGED <<file, input, contents_, dumped>>

StoreKey ==
  LET root == Head(line.key).n
      old  == IF root \in DOMAIN contents_ THEN contents_[root] ELSE Value("invalid")
  IN  /\ rpc = "store"
      /\ \E v \in parse_key(old, Tail(line.key), line.text) :
            contents_' = (root :> v) @@ contents_
      /\ rpc' = "line"
      /\ UNCHANGED <<file, input, pos, is, line, nextline, dumped>>

BadIndex(key) == \E j \in DOMAIN key : key[j].i = -1

(* An uninitialised index may also be too large for resize(), which throws. *)
StoreThrows ==
  /\ rpc = "store" /\ BadIndex(line.key)
  /\ rpc' = "thrown"
  /\ UNCHANGED <<file, input, pos, is, line, nextline, contents_, dumped>>

(* dump(): one assignment per raw value, lines of a value one by one. *)
Split(text) ==
  LET cuts == {0, Len(text) + 1} \cup {j \in DOMAIN text : text[j] = "\n"}
      s    == SetToSortSeq(cuts, <)
  IN  [j \in 1 .. Len(s) - 1 |-> SubSeq(text, s[j] + 1, s[j + 1] - 1)]

(* dump_value(): the assignments of a value that a lookup would find. *)
RECURSIVE dump_value(_, _)
dump_value(path, value) ==
  CASE value.type = "raw"    -> {<<path, value.raw>>}
    [] value.type = "array"  -> UNION {dump_value(Append(path, Index(j - 1)), value.array[j]) :
                                         j \in DOMAIN value.array}
    [] value.type = "record" -> UNION {dump_value(Append(path, Name(n)), value.record[n]) :
                                         n \in DOMAIN value.record}
    [] OTHER -> {}

(* Their lines, in some order: that of the maps does not matter to a reader. *)
DumpLines(a) ==
  LET t == Split(a[2])
  IN  [j \in DOMAIN t |-> [Empty EXCEPT !.key = IF j = 1 THEN a[1] ELSE <<>>, !.text = t[j]]]

RECURSIVE Listed(_)
Listed(S) ==
  IF S = {} THEN <<>> ELSE LET a == CHOOSE x \in S : TRUE IN DumpLines(a) \o Listed(S \ {a})

Dump == Listed(UNION {dump_value(<<Name(n)>>, contents_[n]) : n \in DOMAIN contents_})

(* A second config_file reads what dump() wrote. *)
ReadBack ==
  /\ rpc = "done" /\ ~dumped
  /\ dumped' = TRUE
  /\ input' = [lines |-> Dump, nl |-> TRUE, found |-> TRUE]
  /\ UNCHANGED file
  /\ pos' = 0 /\ is' = "good" /\ line' = Empty /\ nextline' = Empty
  /\ contents_' = <<>> /\ rpc' = "line"

(* parse_file(): a file that cannot be opened leaves the tree empty. *)
ConfigInit ==
  /\ file \in Files /\ input = file
  /\ pos = 0 /\ is = "good" /\ line = Empty /\ nextline = Empty
  /\ contents_ = <<>> /\ dumped = FALSE
  /\ rpc = IF file.found THEN "line" ELSE "done"

ReadStep == ReadLine \/ ReadDone \/ ReadMore \/ StoreKey \/ StoreThrows

-------------------------------------------------------------------------------
(* What the file says, line by line and without a reader. *)
MaxOf(S)    == CHOOSE m \in S : \A i \in S : i <= m
KeyLines(f) == {j \in DOMAIN f.lines : f.lines[j].key # <<>>}

EndOfValue(f, j) ==
  CHOOSE e \in j + 1 .. Len(f.lines) + 1 :
    /\ e = Len(f.lines) + 1 \/ f.lines[e] = Empty \/ f.lines[e].key # <<>>
    /\ \A m \in j + 1 .. e - 1 : f.lines[m] # Empty /\ f.lines[m].key = <<>>

Assigned(f, j) ==
  LET parts == SelectSeq([m \in 1 .. EndOfValue(f, j) - j - 1 |-> f.lines[j + m].text],
                         LAMBDA t : t # NoWords)
  IN  f.lines[j].text \o FlattenSeq([m \in DOMAIN parts |-> <<"\n">> \o parts[m]])

(* What an assignment to key makes of the value at its prefix of length n. *)
Kind(key, n) == IF n = Len(key) THEN "raw" ELSE key[n + 1].k

(* The last line that went through a prefix decides what the prefix is. *)
LastThrough(f, prefix) == MaxOf({j \in KeyLines(f) : IsPrefix(prefix, f.lines[j].key)})

Visible(f, path) ==
  \A n \in 1 .. Len(path) : Kind(f.lines[LastThrough(f, SubSeq(path, 1, n))].key, n) = Kind(path, n)

LastAssigned(f, path) == Assigned(f, MaxOf({j \in KeyLines(f) : f.lines[j].key = path}))

(* The last line of a value is read twice where it is cut off by the end of the
   file: getline() then fails and leaves the line read ahead as it was. *)
CutValue(f) == ~f.nl /\ Last(f.lines).key = <<>> /\ Last(f.lines).text # NoWords

(* Where every index is a number and the file does not end within a line that
   continues a value, every key of the file reads as its last assignment, or
   does not read at all where a later line made one of its prefixes something
   else; also from the output of dump() (read(), parse_key(), operator[],
   dump_value()). *)
ConfigRead ==
  (/\ rpc = "done" /\ file.found /\ ~CutValue(file)
   /\ \A m \in KeyLines(file) : ~BadIndex(file.lines[m].key)) =>
    \A j \in KeyLines(file) :
      LET path == file.lines[j].key
      IN  IF Visible(file, path)
          THEN Readable(path) /\ Raw(path) = LastAssigned(file, path)
          ELSE ~Readable(path)

===============================================================================
