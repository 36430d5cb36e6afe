----------------------------- MODULE ThreadPool -----------------------------
(***************************************************************************)
(* The threads asyncio.to_thread runs blocking calls on: the default        *)
(* executor of the event loop, as services/routing.py and services/push.py  *)
(* use it.  There is one of them, and calls wait in it first come, first    *)
(* served.                                                                  *)
(***************************************************************************)
EXTENDS Naturals, FiniteSets, SequencesExt

CONSTANT Workers  \* its threads, min(32, CPUs + 4)

ASSUME PoolAssumption == Workers \in Nat \ {0}

\* Calls that have not returned, oldest first.  The first ones have a thread:
\* when a call returns, the one that has waited longest moves up.
VARIABLE calls

PoolInit == calls = <<>>

Running == {calls[i] : i \in {i \in DOMAIN calls : i <= Workers}}

Pending == {calls[i] : i \in DOMAIN calls}

Submit(new) == calls' = calls \o new

Return(call) == \E i \in DOMAIN calls : calls[i] = call /\ calls' = RemoveAt(calls, i)

=============================================================================
