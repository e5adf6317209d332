---------------------------- MODULE CommandQueue ----------------------------
(***************************************************************************)
(* The ring buffer of mmwave_command_queue.h: a fixed array, the index of  *)
(* the front command and the number of commands. One action per method.    *)
(* It is to behave as the sequence of module Deque.                        *)
(***************************************************************************)
EXTENDS Integers, Sequences

CONSTANTS Command,          \* the commands
          NoCommand,        \* what an unused slot holds
          QUEUE_CAPACITY    \* slots (32 in the code)

ASSUME QueueAssumption == QUEUE_CAPACITY \in Nat \ {0}

VARIABLES items, head, count

queueVars == <<items, head, count>>

Slots == 0 .. QUEUE_CAPACITY - 1

QueueType ==
  /\ items \in [Slots -> Command \cup {NoCommand}]
  /\ head \in Slots
  /\ count \in 0 .. QUEUE_CAPACITY

QueueInit ==
  /\ items = [s \in Slots |-> NoCommand]
  /\ head = 0
  /\ count = 0

QueueFull == count >= QUEUE_CAPACITY

(* Mutant: a full queue takes one more. *)
AlteredPushBack(c) ==
  /\ items' = [items EXCEPT ![(head + count) % QUEUE_CAPACITY] = c]
  /\ count' = count + 1
  /\ UNCHANGED head

(* push_back: false, and nothing stored, when full. *)
PushBack(c) ==
  IF QueueFull THEN UNCHANGED queueVars
  ELSE /\ items' = [items EXCEPT ![(head + count) % QUEUE_CAPACITY] = c]
       /\ count' = count + 1
       /\ UNCHANGED head

(* push_front: the front moves back by one slot. *)
PushFront(c) ==
  IF QueueFull THEN UNCHANGED queueVars
  ELSE LET h == (head + QUEUE_CAPACITY - 1) % QUEUE_CAPACITY
       IN /\ head' = h
          /\ items' = [items EXCEPT ![h] = c]
          /\ count' = count + 1

Front == items[head]

(* pop_front: the slot keeps its old command. *)
PopFront ==
  IF count = 0 THEN UNCHANGED queueVars
  ELSE /\ head' = (head + 1) % QUEUE_CAPACITY
       /\ count' = count - 1
       /\ UNCHANGED items

ClearQueue == head' = 0 /\ count' = 0 /\ UNCHANGED items

QueueNext ==
  \/ \E c \in Command : PushBack(c) \/ PushFront(c)
  \/ PopFront
  \/ ClearQueue

QueueSpec == QueueInit /\ [][QueueNext]_queueVars

-----------------------------------------------------------------------------
(* The n commands of an array from slot h on, and those of the queue, in   *)
(* the order they will be taken.                                           *)
Ring(slots, h, n) == [i \in 1 .. n |-> slots[(h + i - 1) % QUEUE_CAPACITY]]

Contents == Ring(items, head, count)

Sequenced == INSTANCE Deque WITH queue <- Contents, MaxLength <- QUEUE_CAPACITY

(* The ring hands the commands out as a sequence would: none is lost,      *)
(* doubled or overwritten when the front or the back wraps around the end  *)
(* of the array (push_back, push_front, pop_front and clear of             *)
(* mmwave_command_queue.h).                                                *)
RingIsSequence == Sequenced!Spec
=============================================================================
