-------------------------- MODULE PipelineDataQueue --------------------------
(***************************************************************************)
(* proxylib/pipeline_data_queue: a fixed population of pipeline_data       *)
(* elements that moves between free_list_ and active_queue_.  The request  *)
(* stream takes an element per message (queue_element), the response       *)
(* stream takes the oldest one back (front, dequeue_element), and a        *)
(* recycled proxy_handler returns everything (empty_queue).                *)
(*                                                                         *)
(* Elements are the numbers 1..PIPELINE_DEPTH.  A list is a sequence;      *)
(* splice() moves one node, so it is Tail on one side and Append or a      *)
(* prepend on the other.                                                   *)
(***************************************************************************)
EXTENDS Naturals, Sequences

CONSTANT PIPELINE_DEPTH     \* 5 in the code

ASSUME DepthAssumption == PIPELINE_DEPTH \in Nat \ {0}

VARIABLES
    active_queue,   \* oldest request first
    free_list       \* the next element to hand out first

qvars == <<active_queue, free_list>>

Elements == 1 .. PIPELINE_DEPTH

QueueInit ==
    /\ active_queue = <<>>
    /\ free_list = [i \in 1 .. PIPELINE_DEPTH |-> i]

QueueFull == free_list = <<>>
QueueEmpty == active_queue = <<>>
BackElement == active_queue[Len(active_queue)]       \* mutant: last in, first out
FrontElement == Head(active_queue)

(* The element queue_element() hands out; the caller resets its data. *)
NextFree == Head(free_list)

(* queue_element(): from the head of the free list to the end of the queue. *)
QueueElement ==
    /\ ~QueueFull
    /\ active_queue' = Append(active_queue, NextFree)
    /\ free_list' = Tail(free_list)

(* Mutant: the element of a finished message is dropped. *)
DropElement ==
    /\ ~QueueEmpty
    /\ active_queue' = Tail(active_queue)
    /\ UNCHANGED free_list

(* dequeue_element(): from the front of the queue to the HEAD of the free list. *)
DequeueElement ==
    /\ ~QueueEmpty
    /\ free_list' = <<FrontElement>> \o free_list
    /\ active_queue' = Tail(active_queue)

(* Mutant: empty_queue() that also leaves the elements where they are. *)
CopyQueue ==
    /\ free_list' = free_list \o active_queue
    /\ UNCHANGED active_queue

(* empty_queue(): all of the queue to the end of the free list. *)
EmptyQueue ==
    /\ free_list' = free_list \o active_queue
    /\ active_queue' = <<>>

QueueNext == QueueElement \/ DequeueElement \/ EmptyQueue

QueueSpec == QueueInit /\ [][QueueNext]_qvars

-----------------------------------------------------------------------------
QueueTypeOK ==
    /\ active_queue \in Seq(Elements)
    /\ free_list \in Seq(Elements)

(***************************************************************************)
(* Conservation: every element is in exactly one place of exactly one of   *)
(* the two lists.  This is what the size checks around each splice in      *)
(* pipeline_data_queue.cpp (lines 62-69, 74-86) guard: no element is lost, *)
(* duplicated, or handed to two pipelined requests at once.                *)
(***************************************************************************)
Conserved ==
    LET all == active_queue \o free_list
    IN  /\ Len(all) = PIPELINE_DEPTH
        /\ \A i, j \in 1 .. Len(all) : i # j => all[i] # all[j]

=============================================================================
