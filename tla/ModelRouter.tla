----------------------------- MODULE ModelRouter -----------------------------
(***************************************************************************)
(* The router of requests to language models                               *)
(* (core/orchestration/llm_router.py): which provider a caller is given,   *)
(* and what the outcome of the call does to the providers' books.          *)
(*                                                                         *)
(* Callers are threads.  get_next_provider() holds the lock; the call      *)
(* itself and the bookkeeping after it do not.  Times are abstracted to    *)
(* "has not passed yet"; the usage file, read by the constructor only, and *)
(* the choice of a model are left out.                                     *)
(***************************************************************************)
EXTENDS Integers, FiniteSets, SequencesExt

CONSTANTS Callers,
          Configured,    \* the providers with a key, in the order of the dict
          Priority,      \* Priority[p]: lower is preferred
          DailyLimit,    \* DailyLimit[p]
          Vision,        \* the vision providers, in the order they are tried
          Retries,       \* attempts of send_message()
          MaxDays        \* bound: how often the date changes

Providers == Range(Configured)

ASSUME RouterAssumption ==
  /\ IsFiniteSet(Callers)
  /\ IsInjective(Configured)
  /\ Priority \in [Providers -> Nat]
  /\ DailyLimit \in [Providers -> Nat \ {0}]
  /\ Vision \in Seq(Providers)
  /\ Retries \in Nat \ {0}
  /\ MaxDays \in Nat

VARIABLES status,    \* status[p]
          made,      \* made[p]: requests_made
          waiting,   \* RATE_LIMITED providers whose cooldown_until or backoff
                     \* has not passed
          index,     \* current_index
          newDay,    \* the date is not that of last_reset
          days,      \* how often it has changed
          pc,        \* pc[c]: what caller c does
          left,      \* left[c]: the attempts it has left
          using,     \* using[c]: the provider it calls, or none: a set
          unseen     \* unseen[c]: the vision providers it has still to try

books == <<status, made, waiting, index, newDay, days>>
callers == <<pc, left, using, unseen>>
vars == <<books, callers>>

Statuses == {"ACTIVE", "RATE_LIMITED", "DOWN", "NO_KEY"}

Init ==
  /\ status = [p \in Providers |-> "ACTIVE"]
  /\ made = [p \in Providers |-> 0]
  /\ waiting = {}
  /\ index = 0
  /\ newDay = FALSE /\ days = 0
  /\ pc = [c \in Callers |-> "idle"]
  /\ left = [c \in Callers |-> 0]
  /\ using = [c \in Callers |-> {}]
  /\ unseen = [c \in Callers |-> <<>>]

(* The counter of a vision provider has no bound; beyond this one it makes *)
(* no difference.                                                          *)
MaxMade(p) == DailyLimit[p] + Cardinality(Callers)

TypeOK ==
  /\ status \in [Providers -> Statuses]
  /\ \A p \in Providers : made[p] \in 0 .. MaxMade(p)
  /\ waiting \subseteq {p \in Providers : status[p] = "RATE_LIMITED"}
  /\ index \in 0 .. Cardinality(Providers)
  /\ newDay \in BOOLEAN /\ days \in 0 .. MaxDays
  /\ pc \in [Callers -> {"idle", "vision", "choosing", "calling"}]
  /\ left \in [Callers -> 0 .. Retries]
  /\ using \in [Callers -> SUBSET Providers]
  /\ \A c \in Callers : unseen[c] = Vision \/ Range(unseen[c]) \subseteq Range(Vision)

-------------------------------------------------------------------------------
(* get_next_provider() *)

Remaining(p) == IF made[p] < DailyLimit[p] THEN DailyLimit[p] - made[p] ELSE 0

Comes(p, q) ==
  \/ Priority[p] < Priority[q]
  \/ Priority[p] = Priority[q] /\ Remaining(p) > Remaining(q)

(* Mutants of Listed: exhausted providers are listed; rate-limited ones    *)
(* are not.                                                                *)
ListedAnyway(p) == status[p] \in {"ACTIVE", "RATE_LIMITED"}

ListedActive(p) == status[p] = "ACTIVE" /\ Remaining(p) > 0

(* _update_provider_order(): a stable sort of what has requests left.      *)
Listed(p) == status[p] \in {"ACTIVE", "RATE_LIMITED"} /\ Remaining(p) > 0

Position(p) == CHOOSE n \in DOMAIN Configured : Configured[n] = p

Before(p, q) == Comes(p, q) \/ (~Comes(q, p) /\ Position(p) < Position(q))

provider_order == {p \in Providers : Listed(p)}

Size == Cardinality(provider_order)

(* The provider at place k of the order, counted from 0: a set.            *)
At(k) == {p \in provider_order : Cardinality({q \in provider_order : Before(q, p)}) = k}

Usable(p) == p \notin waiting

(* The place of the n-th provider the loop looks at, counted from 0.       *)
Place(n) == ((IF index >= Size THEN 0 ELSE index) + n) % Size

Looks == 0 .. Size - 1

Passes(n) == \A p \in At(Place(n)) : ~Usable(p)

(* Mutant: the loop always starts at the same place.                       *)
IndexKept(n) == index

IndexAfter(n) == Place(n) + 1

Give(c, p, n) ==
  /\ index' = IndexAfter(n)
  /\ status' = [status EXCEPT ![p] = "ACTIVE"]
  /\ pc' = [pc EXCEPT ![c] = "calling"]
  /\ using' = [using EXCEPT ![c] = {p}]
  /\ UNCHANGED <<left, unseen>>

(* No provider: send_message() returns the failure.                        *)
GiveUp(c) ==
  /\ pc' = [pc EXCEPT ![c] = "idle"]
  /\ left' = [left EXCEPT ![c] = 0]
  /\ UNCHANGED <<status, using, unseen>>

ChooseProvider(c) ==
  /\ pc[c] = "choosing" /\ ~newDay
  /\ \/ \E n \in Looks : \E p \in At(Place(n)) :
          /\ Usable(p) /\ \A m \in 0 .. n - 1 : Passes(m)
          /\ Give(c, p, n)
     \/ /\ Looks # {} /\ \A n \in Looks : Passes(n)
        /\ index' = IndexAfter(Size - 1)
        /\ GiveUp(c)
     \/ Looks = {} /\ UNCHANGED index /\ GiveUp(c)
  /\ UNCHANGED <<made, waiting, newDay, days>>

(* _reset_if_new_day(), at the head of get_next_provider().                *)
Reset(c) ==
  /\ pc[c] = "choosing" /\ newDay
  /\ newDay' = FALSE
  /\ made' = [p \in Providers |-> 0]
  /\ status' = [p \in Providers |-> "ACTIVE"]
  /\ waiting' = {}
  /\ UNCHANGED <<index, days, callers>>

-------------------------------------------------------------------------------
(* send_message() and send_vision_request() *)

Send(c) ==
  /\ pc[c] = "idle"
  /\ pc' = [pc EXCEPT ![c] = "choosing"]
  /\ left' = [left EXCEPT ![c] = Retries]
  /\ UNCHANGED <<books, using, unseen>>

SendVision(c) ==
  /\ pc[c] = "idle" /\ Vision # <<>>
  /\ pc' = [pc EXCEPT ![c] = "vision"]
  /\ unseen' = [unseen EXCEPT ![c] = Vision]
  /\ UNCHANGED <<books, left, using>>

Count(p) == made' = [made EXCEPT ![p] = IF @ < MaxMade(p) THEN @ + 1 ELSE @]

(* The call succeeds.  The status is left alone, whatever another caller   *)
(* has made of it.                                                         *)
Succeed(c) ==
  /\ pc[c] = "calling"
  /\ \E p \in using[c] : Count(p)
  /\ pc' = [pc EXCEPT ![c] = "idle"]
  /\ left' = [left EXCEPT ![c] = 0]
  /\ using' = [using EXCEPT ![c] = {}]
  /\ UNCHANGED <<status, waiting, index, newDay, days, unseen>>

StatusAfter(kind) ==
  CASE kind = "rate_limit" -> "RATE_LIMITED"
    [] kind = "auth"       -> "NO_KEY"
    [] kind = "generic"    -> "DOWN"

(* The call fails and _handle_provider_error() books it.                   *)
Fail(c, kind) ==
  /\ pc[c] = "calling"
  /\ \E p \in using[c] :
       /\ status' = [status EXCEPT ![p] = StatusAfter(kind)]
       /\ waiting' = IF kind = "rate_limit" THEN waiting \union {p} ELSE waiting \ {p}
  /\ pc' = [pc EXCEPT ![c] = IF left[c] > 1 THEN "choosing" ELSE "idle"]
  /\ left' = [left EXCEPT ![c] = @ - 1]
  /\ using' = [using EXCEPT ![c] = {}]
  /\ UNCHANGED <<made, index, newDay, days, unseen>>

(* One round of send_vision_request(): no lock, no limit, no cooldown, and *)
(* a failure is not booked.  After the last provider: send_message().      *)
TryVision(c) ==
  /\ pc[c] = "vision" /\ unseen[c] # <<>>
  /\ \/ /\ status[Head(unseen[c])] \in {"ACTIVE", "RATE_LIMITED"}
        /\ Count(Head(unseen[c]))
        /\ pc' = [pc EXCEPT ![c] = "idle"]
        /\ unseen' = [unseen EXCEPT ![c] = <<>>]
     \/ unseen' = [unseen EXCEPT ![c] = Tail(@)] /\ UNCHANGED <<made, pc>>
  /\ UNCHANGED <<status, waiting, index, newDay, days, left, using>>

FallBack(c) ==
  /\ pc[c] = "vision" /\ unseen[c] = <<>>
  /\ pc' = [pc EXCEPT ![c] = "choosing"]
  /\ left' = [left EXCEPT ![c] = Retries]
  /\ UNCHANGED <<books, using, unseen>>

WaitPasses(p) ==
  /\ p \in waiting
  /\ waiting' = waiting \ {p}
  /\ UNCHANGED <<status, made, index, newDay, days, callers>>

Midnight ==
  /\ ~newDay /\ days < MaxDays
  /\ newDay' = TRUE
  /\ days' = days + 1
  /\ UNCHANGED <<status, made, waiting, index, callers>>

CallEnds(c) == Succeed(c) \/ \E k \in {"rate_limit", "auth", "generic"} : Fail(c, k)

CallerStep(c) ==
  Reset(c) \/ ChooseProvider(c) \/ CallEnds(c) \/ TryVision(c) \/ FallBack(c)

Next ==
  \/ \E c \in Callers : Send(c) \/ SendVision(c) \/ CallerStep(c)
  \/ \E p \in Providers : WaitPasses(p)
  \/ Midnight

Spec == Init /\ [][Next]_vars

(* A call ends (it has a timeout), time passes, and requests keep coming.  *)
FairSpec ==
  /\ Spec
  /\ \A c \in Callers : WF_vars(CallerStep(c)) /\ SF_vars(Send(c))
  /\ \A p \in Providers : WF_vars(WaitPasses(p))

-------------------------------------------------------------------------------
(* Properties *)

(* Text requests overrun a provider's daily limit by no more than the      *)
(* calls under way when it was reached.  (Vision requests do not look.)    *)
LimitKept ==
  \A p \in Providers \ Range(Vision) :
    made[p] <= DailyLimit[p] + Cardinality(Callers) - 1

Available(p) == status[p] \in {"ACTIVE", "RATE_LIMITED"} /\ Remaining(p) > 0

(* While text requests keep coming, every provider that is neither down    *)
(* nor used up is called again ("round-robin distribution across           *)
(* providers", "rate limit management"), one that was rate-limited too.    *)
NoneNeglected ==
  \A p \in Providers : Available(p) ~> ~Available(p) \/ \E c \in Callers : p \in using[c]

(* "Exponential backoff for failed providers" and "down -- cooldown 30s"   *)
(* are not kept (README, section 7): a provider that failed is DOWN until  *)
(* the date changes, for the list of candidates leaves it out.             *)
DownComesBack ==
  \A p \in Providers : status[p] = "DOWN" ~> status[p] # "DOWN"
===============================================================================
