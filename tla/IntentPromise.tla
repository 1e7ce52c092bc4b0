---------------------------- MODULE IntentPromise ----------------------------
(***************************************************************************)
(* What the execution core promises about one intent, without journal,     *)
(* workers, events or recovery: an intent is withdrawn without an effect,  *)
(* or exposed before it can have one; an exposed intent is declared kept   *)
(* only if what it claims about the world has been the case, or disowned;  *)
(* and whatever is declared is never changed again.                        *)
(***************************************************************************)
CONSTANTS Intents,   \* the intents
          Claim,     \* Claim[i]: what i is to bring about
          Trusted,   \* intents whose claim nobody can observe
          Given      \* claims that may hold from the start

VARIABLES fate,      \* fate[i]: what is durably declared about i
          effects,   \* the intents that had an effect
          held       \* the claims that have held at some time

promiseVars == <<fate, effects, held>>

Fates == {"open", "withdrawn", "exposed", "kept", "disowned"}

PromiseTypeOK ==
  /\ fate \in [Intents -> Fates]
  /\ effects \subseteq Intents
  /\ held \subseteq Given \cup {Claim[i] : i \in Intents}

PromiseInit ==
  /\ fate = [i \in Intents |-> "open"]
  /\ effects = {}
  /\ held \subseteq Given

Declare(i, from, to) ==
  /\ fate[i] = from
  /\ fate' = [fate EXCEPT ![i] = to]
  /\ UNCHANGED <<effects, held>>

Withdraw(i) == Declare(i, "open", "withdrawn")

Expose(i) == Declare(i, "open", "exposed")

Keep(i) ==
  /\ i \in Trusted \/ Claim[i] \in held
  /\ Declare(i, "exposed", "kept")

Disown(i) == Declare(i, "exposed", "disowned")

(* An effect may come late, even after the intent was disowned.            *)
Act(i) ==
  /\ fate[i] \in {"exposed", "kept", "disowned"}
  /\ effects' = effects \cup {i}
  /\ held' \in {held, held \cup {Claim[i]}}
  /\ UNCHANGED fate

PromiseNext ==
  \E i \in Intents : Withdraw(i) \/ Expose(i) \/ Keep(i) \/ Disown(i) \/ Act(i)

PromiseSpec == PromiseInit /\ [][PromiseNext]_promiseVars
==============================================================================
