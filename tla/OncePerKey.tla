------------------------------ MODULE OncePerKey ------------------------------
(***************************************************************************)
(* What an idempotency key promises: once an attempt with the key has taken *)
(* effect, no other attempt takes effect before the promise of the key has  *)
(* expired, and whoever is told of a result is told of an effect that was   *)
(* made.                                                                    *)
(*                                                                         *)
(* An operation that does not write its record together with its effect     *)
(* promises nothing when it reports an error, and is not held back by the    *)
(* promise of another when it takes effect after its own would have expired. *)
(***************************************************************************)
EXTENDS Naturals

CONSTANTS Attempts, NoAttempt, TTL

VARIABLES
    clock,
    atomic,    \* whether effect and record are written together
    begun,     \* begun[a]: when the attempt a read the clock
    effects,   \* the attempts that have taken effect
    latest,    \* the attempt that took effect last
    keeper,    \* the attempt that made the last promise, or NoAttempt
    kept,      \* when it did
    least,     \* the first instant at which a promise of the key ends, or 0
    told       \* told[a]: the attempt whose result a has returned

onceVars == <<clock, atomic, begun, effects, latest, keeper, kept, least, told>>

OnceInit ==
    /\ clock = 0
    /\ atomic \in BOOLEAN
    /\ begun = [a \in Attempts |-> 0]
    /\ effects = {}
    /\ latest = NoAttempt
    /\ keeper = NoAttempt
    /\ kept = 0
    /\ least = 0
    /\ told = [a \in Attempts |-> NoAttempt]

Begin(a) ==
    /\ a \notin effects
    /\ begun' = [begun EXCEPT ![a] = clock]
    /\ UNCHANGED <<clock, atomic, effects, latest, keeper, kept, least, told>>

(* The promise of the last effect has expired.  One case is left out: when   *)
(* another attempt had begun after the end of an earlier promise and before *)
(* the last one was made, so that the two met at an expired record.         *)
PromiseOver == keeper = NoAttempt \/ begun[keeper] + TTL <= clock

MetAtExpiry ==
    \E e \in Attempts \ {keeper} : 0 < least /\ least <= begun[e] /\ begun[e] <= kept

Earliest(end) == IF least = 0 \/ end < least THEN end ELSE least

TakeEffect(a) ==
    /\ a \notin effects
    /\ PromiseOver \/ MetAtExpiry
    /\ effects' = effects \cup {a}
    /\ latest' = a
    /\ \/ /\ keeper' = a
          /\ kept' = clock
          /\ least' = Earliest(begun[a] + TTL)
          /\ told' \in {told, [told EXCEPT ![a] = a]}
       \/ ~atomic /\ UNCHANGED <<keeper, kept, least, told>>
    /\ UNCHANGED <<clock, atomic, begun>>

(* An operation that is not atomic and outlives its own promise. *)
TakeEffectLate(a) ==
    /\ ~atomic
    /\ a \notin effects
    /\ begun[a] + TTL <= clock
    /\ effects' = effects \cup {a}
    /\ least' = Earliest(begun[a] + TTL)
    /\ UNCHANGED <<clock, atomic, begun, latest, keeper, kept, told>>

(* A result that is told is the result of an effect, and of the latest one  *)
(* when effect and record are written together.                             *)
Tell(a) ==
    /\ told[a] = NoAttempt
    /\ \E b \in effects :
         /\ atomic => b = latest
         /\ told' = [told EXCEPT ![a] = b]
    /\ UNCHANGED <<clock, atomic, begun, effects, latest, keeper, kept, least>>

Pass ==
    /\ clock' = clock + 1
    /\ UNCHANGED <<atomic, begun, effects, latest, keeper, kept, least, told>>

OnceNext ==
    \/ Pass
    \/ \E a \in Attempts : Begin(a) \/ TakeEffect(a) \/ TakeEffectLate(a) \/ Tell(a)

OnceSpec == OnceInit /\ [][OnceNext]_onceVars

===============================================================================
