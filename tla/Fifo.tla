-------------------------------- MODULE Fifo --------------------------------
(***************************************************************************)
(* What QUEUE.H promises: a first-in first-out list of objects.            *)
(***************************************************************************)
EXTENDS Sequences

CONSTANTS Objects, Nothing

VARIABLES
  items,    \* the objects, oldest first
  answer    \* what the last call returned

fifoVars == <<items, answer>>

FifoInit == items = <<>> /\ answer = Nothing

Put(o) ==
  /\ items' = Append(items, o)
  /\ answer' = Nothing

\* There was no room for another object.
Refuse ==
  /\ answer' = Nothing
  /\ UNCHANGED items

Take ==
  /\ items # <<>>
  /\ answer' = Head(items)
  /\ items' = Tail(items)

\* "Returns NULL if q is empty."
TakeNothing ==
  /\ items = <<>>
  /\ answer' = Nothing
  /\ UNCHANGED items

Probe ==
  /\ answer' = IF items = <<>> THEN "TRUE" ELSE "FALSE"
  /\ UNCHANGED items

Drop ==
  /\ items' = <<>>
  /\ answer' = Nothing

FifoNext ==
  (\E o \in Objects : Put(o)) \/ Refuse \/ Take \/ TakeNothing \/ Probe \/ Drop

FifoSpec == FifoInit /\ [][FifoNext]_fifoVars
=============================================================================
