------------------------------ MODULE FcdDongle ------------------------------
(***************************************************************************)
(* What the calls of fcd.h that set and get promise of a dongle that       *)
(* several programs use: a set of registers that hold the numbers the      *)
(* header documents.  A request takes effect at most once, and not before  *)
(* it is made, though perhaps after it was given up; a number no register  *)
(* can hold is refused and has no effect.  A call that succeeds has the    *)
(* answer to its own request, or one of the same command that an earlier   *)
(* call was given up without; no answer is used twice, and the numbers     *)
(* that were set are the numbers that are got.  What                       *)
(* lib/fcd_application.c and lib/fcd_common.c (FcdIo, FcdIoProofs)         *)
(* implement.                                                              *)
(***************************************************************************)
EXTENDS Integers

CONSTANTS Callers,   \* programs that use the dongle
          Registers, \* what the dongle can be told and asked
          Contents,  \* Contents[r]: the numbers register r is set to
          PowerUp    \* PowerUp[r]: the numbers it holds at first

VARIABLES value,    \* value[r]: the contents of register r
          calls,    \* calls[p]: p's request, None between calls
          undone,   \* requests that may still take effect
          answers,  \* answers nobody has got
          result,   \* result[p]: 0 or -1, of p's last call
          out,      \* out[p]: the numbers p's last successful get has got
          nth       \* number of requests so far

vars == <<value, calls, undone, answers, result, out, nth>>

None == [n |-> 0, op |-> "none", reg |-> "none", arg |-> <<>>]

Init ==
  /\ value = PowerUp
  /\ calls = [p \in Callers |-> None]
  /\ undone = {} /\ answers = {}
  /\ result = [p \in Callers |-> -1] /\ out = [p \in Callers |-> <<>>]
  /\ nth = 0

Call(p, r) ==
  /\ calls[p] = None
  /\ calls' = [calls EXCEPT ![p] = r] /\ undone' = undone \cup {r}
  /\ nth' = nth + 1 /\ r.n = nth'
  /\ result' = [result EXCEPT ![p] = -1]
  /\ UNCHANGED <<value, answers, out>>

Set(p, reg, arg) == Call(p, [n |-> nth + 1, op |-> "set", reg |-> reg, arg |-> arg])
Get(p, reg) == Call(p, [n |-> nth + 1, op |-> "get", reg |-> reg, arg |-> <<>>])

\* A call with numbers out of range, or without a dongle.
Reject(p) ==
  /\ calls[p] = None
  /\ result' = [result EXCEPT ![p] = -1]
  /\ UNCHANGED <<value, calls, undone, answers, out, nth>>

\* The dongle does what a request asks, or refuses to.
Effect(r) ==
  /\ undone' = undone \ {r}
  /\ value' = IF r.op = "set" THEN [value EXCEPT ![r.reg] = r.arg] ELSE value
  /\ answers' = answers \cup
       {[n |-> r.n, op |-> r.op, reg |-> r.reg, ok |-> TRUE,
         data |-> IF r.op = "get" THEN value[r.reg] ELSE <<>>]}
  /\ UNCHANGED <<calls, result, out, nth>>

Refusal(r) ==
  /\ undone' = undone \ {r}
  /\ answers' = answers \cup
       {[n |-> r.n, op |-> r.op, reg |-> r.reg, ok |-> FALSE, data |-> <<>>]}
  /\ UNCHANGED <<value, calls, result, out, nth>>

Succeed(p, a) ==
  /\ calls[p] # None
  /\ a.ok /\ a.op = calls[p].op /\ a.reg = calls[p].reg
  /\ calls' = [calls EXCEPT ![p] = None]
  /\ result' = [result EXCEPT ![p] = 0]
  /\ out' = IF a.op = "get" THEN [out EXCEPT ![p] = a.data] ELSE out
  /\ answers' \subseteq answers \ {a}
  /\ UNCHANGED <<value, undone, nth>>

Forget == undone' \subseteq undone /\ answers' \subseteq answers

\* A call fails; its request may be forgotten or carried out later, its
\* answer be lost or be left for somebody else.
Fail(p) ==
  /\ calls[p] # None
  /\ calls' = [calls EXCEPT ![p] = None] /\ Forget
  /\ UNCHANGED <<value, result, out, nth>>

\* A program ends, and another takes its place.
Restart(p) ==
  /\ calls' = [calls EXCEPT ![p] = None] /\ Forget
  /\ result' = [result EXCEPT ![p] = -1] /\ out' = [out EXCEPT ![p] = <<>>]
  /\ UNCHANGED <<value, nth>>

Lose == Forget /\ UNCHANGED <<value, calls, result, out, nth>>

Replug ==
  /\ value' = PowerUp
  /\ UNCHANGED <<calls, undone, answers, result, out, nth>>

Next ==
  \/ \E p \in Callers :
       \/ \E reg \in Registers :
            Get(p, reg) \/ \E arg \in Contents[reg] : Set(p, reg, arg)
       \/ Reject(p) \/ Fail(p) \/ Restart(p)
       \/ \E a \in answers : Succeed(p, a)
  \/ \E r \in undone : Effect(r) \/ Refusal(r)
  \/ Lose \/ Replug

Spec == Init /\ [][Next]_vars
=============================================================================
