------------------------------ MODULE ServerPools ------------------------------
(***************************************************************************)
(* What the connections of one sfrp process share: the three               *)
(* pessimistic_memory_managers from which new_connection_handler takes a   *)
(* proxy_handler and its two stream handlers, and the header_cache from    *)
(* which every message_buffer takes its header fields.                     *)
(*                                                                         *)
(* When a connection takes a field, completes a message or shuts down is   *)
(* ProxyHandler's business; here every live handler may do so at any time. *)
(***************************************************************************)
EXTENDS Naturals, FiniteSets, Functions, FiniteSetsExt

CONSTANTS
    MAX_CONNECTIONS,    \* size of each of the three managers
    HEADER_POOL_SIZE,   \* headers in the cache
    MAX_NUM_HEADERS     \* fields one message may have

ASSUME PoolAssumption ==
    /\ MAX_CONNECTIONS \in Nat \ {0}
    /\ HEADER_POOL_SIZE \in Nat \ {0}
    /\ MAX_NUM_HEADERS \in Nat

StreamKinds == {"request", "response"}
Pools == StreamKinds \cup {"proxy"}
Slots == 1 .. MAX_CONNECTIONS

VARIABLES
    free_data_stack,        \* by pool: the manager's vector
    current_free_position,  \* by pool: how many of its entries are taken
    held,                   \* by proxy_handler: its stream handlers, 0 for null
    fields,                 \* by stream handler: fields in its message_buffer
    cache,                  \* headers left in the header_cache
    failed                  \* "" or what stopped the process

pvars == <<free_data_stack, current_free_position, held, fields, cache, failed>>

StreamHandlers == StreamKinds \X Slots
Free == [s \in StreamKinds |-> 0]

PoolInit ==
    /\ free_data_stack = [p \in Pools |-> [i \in Slots |-> i]]
    /\ current_free_position = [p \in Pools |-> 0]
    /\ held = [h \in Slots |-> Free]
    /\ fields = [x \in StreamHandlers |-> 0]
    /\ cache = HEADER_POOL_SIZE
    /\ failed = ""

Live == {h \in Slots : held[h] # Free}

(* allocate_element(): 0 when the vector is used up. *)
Exhausted(p) == current_free_position[p] >= MAX_CONNECTIONS
NextElement(p) == free_data_stack[p][current_free_position[p] + 1]

(* release_element(e[p]) of each pool: the position steps back, and the element
   is stored there. *)
ReleaseInPlace(e) ==                            \* mutant: stored, then stepped back
    /\ free_data_stack' = [p \in Pools |->
          [free_data_stack[p] EXCEPT ![current_free_position[p] + 1] = e[p]]]
    /\ current_free_position' = [p \in Pools |-> current_free_position[p] - 1]

ReleaseElements(e) ==
    /\ free_data_stack' = [p \in Pools |->
          [free_data_stack[p] EXCEPT ![current_free_position[p]] = e[p]]]
    /\ current_free_position' = [p \in Pools |-> current_free_position[p] - 1]

(* message_buffer::reset() of some stream handlers: release_headers() checks
   that the cache is not empty, although it is about to fill it. *)
ForgetHeaders(xs) ==                            \* mutant: the list is only cleared
    /\ fields' = [x \in StreamHandlers |-> IF x \in xs THEN 0 ELSE fields[x]]
    /\ UNCHANGED cache

ReleaseHeaders(xs) ==
    /\ cache' = cache + SumFunctionOnSet(fields, xs)
    /\ fields' = [x \in StreamHandlers |-> IF x \in xs THEN 0 ELSE fields[x]]

-----------------------------------------------------------------------------
(* The loop body of new_connection_handler::handle_event() for one accepted
   client.  What allocate_element() returns is used without a test. *)
AcceptClient ==
    /\ failed = ""
    /\ \A p \in Pools : ~Exhausted(p)
    /\ cache > 0
    /\ held' = [held EXCEPT ![NextElement("proxy")] = [s \in StreamKinds |-> NextElement(s)]]
    /\ current_free_position' = [p \in Pools |-> current_free_position[p] + 1]
    /\ ReleaseHeaders({<<s, NextElement(s)>> : s \in StreamKinds})
    /\ UNCHANGED <<free_data_stack, failed>>

AcceptFails ==
    /\ failed = ""
    /\ \/ /\ \E p \in Pools : Exhausted(p)
          /\ failed' = "null handler"
       \/ /\ \A p \in Pools : ~Exhausted(p)
          /\ cache = 0
          /\ failed' = "empty header cache"
    /\ UNCHANGED <<free_data_stack, current_free_position, held, fields, cache>>

(* set_field_name(): one more field for a message.  With its maximum reached or
   the cache empty the message is denied and nothing changes. *)
AddField(h, s) ==
    /\ failed = "" /\ h \in Live
    /\ LET x == <<s, held[h][s]>>
       IN  /\ fields[x] < MAX_NUM_HEADERS /\ cache > 0
           /\ fields' = [fields EXCEPT ![x] = @ + 1]
    /\ cache' = cache - 1
    /\ UNCHANGED <<free_data_stack, current_free_position, held, failed>>

(* complete_message(): the fields go back to the cache. *)
CompleteMessage(h, s) ==
    /\ failed = "" /\ h \in Live
    /\ \/ /\ cache > 0
          /\ ReleaseHeaders({<<s, held[h][s]>>})
          /\ UNCHANGED failed
       \/ /\ cache = 0
          /\ failed' = "empty header cache"
          /\ UNCHANGED <<cache, fields>>
    /\ UNCHANGED <<free_data_stack, current_free_position, held>>

(* proxy_handler::shutdown(): the handler and its stream handlers go back to
   their managers.  Their fields do not go back to the cache: the message_buffer
   keeps them until the stream handler is used again. *)
Shutdown(h) ==
    /\ failed = "" /\ h \in Live
    /\ ReleaseElements([p \in Pools |-> IF p = "proxy" THEN h ELSE held[h][p]])
    /\ held' = [held EXCEPT ![h] = Free]
    /\ UNCHANGED <<fields, cache, failed>>

PoolNext ==
    \/ AcceptClient \/ AcceptFails
    \/ \E h \in Slots : Shutdown(h)
    \/ \E h \in Slots, s \in StreamKinds : AddField(h, s) \/ CompleteMessage(h, s)

PoolSpec == PoolInit /\ [][PoolNext]_pvars

-----------------------------------------------------------------------------
Taken(p) == IF p = "proxy" THEN Live ELSE {held[h][p] : h \in Live}
Remaining(p) == {free_data_stack[p][i] : i \in current_free_position[p] + 1 .. MAX_CONNECTIONS}

(***************************************************************************)
(* Ownership: each manager's elements are split between its free entries   *)
(* and the live connections, without repetition on either side.  No two    *)
(* connections share a handler, and none is used after it was released,    *)
(* although release_element() believes whatever it is given.  The three    *)
(* managers are used in step: no client finds a proxy_handler and then no  *)
(* stream handler for it.                                                  *)
(***************************************************************************)
NoSharing ==
    \A p \in Pools :
        /\ Taken(p) \cup Remaining(p) = Slots /\ Taken(p) \cap Remaining(p) = {}
        /\ Cardinality(Taken(p)) = Cardinality(Live)
        /\ Cardinality(Taken(p)) = current_free_position[p]

(***************************************************************************)
(* No header is lost or invented: the cache and the message buffers, those *)
(* of released stream handlers included, hold all of them.                 *)
(***************************************************************************)
HeadersConserved == cache + SumFunction(fields) = HEADER_POOL_SIZE

================================================================================
