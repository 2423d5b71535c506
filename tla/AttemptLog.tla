----------------------------- MODULE AttemptLog -----------------------------
(***************************************************************************)
(* What the legacy queue promises about each logical run, whatever its     *)
(* workers do: it is waiting, held by one numbered physical attempt, or    *)
(* done; a run asked to stop is never handed out and never yields          *)
(* evidence; evidence is that of the attempt which ended the run, and a    *)
(* run with evidence is never opened again.                                *)
(***************************************************************************)
EXTENDS Naturals

CONSTANT Runs

VARIABLE slot   \* slot[r]: the phase of r, its attempt, whether it was asked
                \* to stop, and the attempt its evidence is from (0: none)

Phase == {"waiting", "held", "done"}

Init ==
  slot = [r \in Runs |->
            [phase |-> "waiting", attempt |-> 0, stop |-> FALSE, evidence |-> 0]]

Moved(s, phase) == [s EXCEPT !.phase = phase]

\* A waiting run is handed out, or taken from a holder that lost its lease.
Take(s, t) ==
  /\ s.phase \in {"waiting", "held"} /\ ~s.stop
  /\ t = [Moved(s, "held") EXCEPT !.attempt = s.attempt + 1]

GiveBack(s, t) == s.phase = "held" /\ ~s.stop /\ t = Moved(s, "waiting")

AskToStop(s, t) == t = [s EXCEPT !.stop = TRUE]

\* A stopped run ends without evidence.
Withdraw(s, t) ==
  /\ s.phase \in {"waiting", "held"}
  /\ t = [Moved(s, "done") EXCEPT !.stop = TRUE]

\* The holder ends the run, with the evidence of its own attempt or none.
Finish(s, t) ==
  /\ s.phase = "held" /\ ~s.stop
  /\ \E e \in {0, s.attempt} : t = [Moved(s, "done") EXCEPT !.evidence = e]

\* One more attempt is authorized for a run that failed without evidence.
Reopen(s, t) ==
  /\ s.phase = "done" /\ s.evidence = 0 /\ s.attempt > 0
  /\ t = Moved(s, "waiting")

SlotStep(s, t) ==
  \/ Take(s, t) \/ GiveBack(s, t) \/ AskToStop(s, t) \/ Withdraw(s, t)
  \/ Finish(s, t) \/ Reopen(s, t)

\* One transaction may end several abandoned runs and hand out another.
Next ==
  /\ slot' \in [Runs -> [phase : Phase, attempt : Nat, stop : BOOLEAN, evidence : Nat]]
  /\ \A r \in Runs : slot'[r] = slot[r] \/ SlotStep(slot[r], slot'[r])

Spec == Init /\ [][Next]_slot
=============================================================================
