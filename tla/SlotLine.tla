------------------------------ MODULE SlotLine ------------------------------
(***************************************************************************)
(* What the slot lock manager promises to the handler executions of a      *)
(* package: every slot has one line of claimants.  The head of the line is  *)
(* the holder of the slot; the others are served in the order they joined.  *)
(* A claimant that is not the head may give up and leave; the head only     *)
(* leaves by releasing, and nobody joins anywhere but at the end.           *)
(*                                                                          *)
(* SlotLocks.tla is the program that implements this.                       *)
(***************************************************************************)
EXTENDS Naturals, Sequences, SequencesExt

CONSTANTS Calls,    \* the claims: one per call of SlotLocks.Acquire
          Slots     \* the storage keys that are locked

VARIABLES line,     \* slot -> sequence of claims, holder first
          joined    \* claims that have entered a line: each one enters once

vars == <<line, joined>>

TypeOK ==
  /\ line \in [Slots -> Seq(Calls)]
  /\ joined \in SUBSET Calls

Init ==
  /\ line = [s \in Slots |-> <<>>]
  /\ joined = {}

Join(c, s) ==
  /\ c \notin joined
  /\ joined' = joined \cup {c}
  /\ line' = [line EXCEPT ![s] = Append(@, c)]

GiveUp(s, i) ==
  /\ i \in 2 .. Len(line[s])
  /\ line' = [line EXCEPT ![s] = RemoveAt(@, i)]
  /\ UNCHANGED joined

Depart(s) ==
  /\ line[s] # <<>>
  /\ line' = [line EXCEPT ![s] = Tail(@)]
  /\ UNCHANGED joined

Next ==
  \E s \in Slots :
    \/ \E c \in Calls : Join(c, s)
    \/ \E i \in 2 .. Len(line[s]) : GiveUp(s, i)
    \/ Depart(s)

Spec == Init /\ [][Next]_vars
=============================================================================
