--------------------------- MODULE RateLimitProofs ---------------------------
(***************************************************************************)
(* Theorems about RateLimit: what passes a limiter is bounded in every     *)
(* window, for any number of senders, any periods and any bursts.          *)
(***************************************************************************)
EXTENDS RateLimit, TLAPS

(* The quotas are natural numbers, whatever was configured. *)
LEMMA QuotaNat ==
    /\ OwnQuota.period \in Nat /\ OwnQuota.most \in Nat
    /\ SharedQuota.period \in Nat /\ SharedQuota.most \in Nat
<1> DEFINE P1 == AtLeast(PerPeerPeriod, ShortestPeriod)
           B1 == AtLeast(PerPeerBurst, 1)
           P2 == AtLeast(GlobalPeriod, ShortestPeriod)
           B2 == AtLeast(GlobalBurst, 1)
<1>1. P1 \in Nat /\ B1 \in Nat /\ P2 \in Nat /\ B2 \in Nat
  BY RateAssumption DEF AtLeast
<1>2. OwnQuota = [period |-> P1, most |-> B1 * P1]
  BY DEF OwnQuota, Quota
<1>3. SharedQuota = [period |-> P2, most |-> B2 * P2]
  BY DEF SharedQuota, Quota
<1> HIDE DEF P1, B1, P2, B2
<1>4. B1 * P1 \in Nat /\ B2 * P2 \in Nat
  BY <1>1
<1> QED
  BY <1>1, <1>2, <1>3, <1>4

(* One item more makes one period more. *)
LEMMA OneMore ==
    ASSUME NEW n \in Nat, NEW m \in Nat
    PROVE  (n + 1) * m = n * m + m /\ n * m \in Nat
OBVIOUS

(* What the shared limiter let pass is paid off by the time the window is    *)
(* open, or still owed.                                                      *)
PassesPaid == passes * SharedQuota.period <= age + shared

(* What a sender's items added is paid off, owed, or was forgiven.           *)
TakenPaid == \A s \in Senders : taken[s] <= age + debt[s] + restarts[s]

(* Nothing is counted while no window is open.                               *)
Uncounted == ~watching => passes = 0 /\ taken = Zero

(* The inductive invariant. *)
RateInv == TypeOK /\ PassesPaid /\ TakenPaid /\ Uncounted

LEMMA InitRate == Init => RateInv
<1> SUFFICES ASSUME Init PROVE RateInv
  OBVIOUS
<1>1. MaxWindow \in Nat
  BY RateAssumption
<1>2. TypeOK
  <2>1. 0 \in 0..OwnQuota.most /\ 0 \in 0..SharedQuota.most /\ 0 \in 0..MaxWindow
    BY <1>1, QuotaNat
  <2>2. debt \in [Senders -> 0..OwnQuota.most]
    BY <2>1 DEF Init, Zero
  <2>3. taken \in [Senders -> Nat] /\ restarts \in [Senders -> Nat]
    BY DEF Init, Zero
  <2>4. stage \in [Senders -> Stages]
    BY DEF Init, Stages
  <2> QED
    BY <2>1, <2>2, <2>3, <2>4 DEF Init, TypeOK
<1>3. PassesPaid
  <2>1. passes = 0 /\ age = 0 /\ shared = 0
    BY DEF Init
  <2>2. 0 * SharedQuota.period = 0
    BY QuotaNat
  <2> QED
    BY <2>1, <2>2 DEF PassesPaid
<1>4. TakenPaid
  BY DEF Init, TakenPaid, Zero
<1>5. Uncounted
  BY DEF Init, Uncounted
<1> QED
  BY <1>2, <1>3, <1>4, <1>5 DEF RateInv

(* The debt a limiter admits stays within its burst. *)
LEMMA AdmitsWithin ==
    /\ \A d \in 0..OwnQuota.most :
          Admits(OwnQuota, d) => d + OwnQuota.period \in 0..OwnQuota.most
    /\ \A d \in 0..SharedQuota.most :
          Admits(SharedQuota, d) => d + SharedQuota.period \in 0..SharedQuota.most
BY QuotaNat DEF Admits

LEMMA RecvRate ==
    ASSUME RateInv, NEW s \in Senders, Recv(s) PROVE RateInv'
<1>1. stage' \in [Senders -> Stages]
  BY DEF RateInv, TypeOK, Recv, Stages
<1> QED
  BY <1>1 DEF RateInv, TypeOK, PassesPaid, TakenPaid, Uncounted, Recv, limiters,
              window

LEMMA PeerReadyRate ==
    ASSUME RateInv, NEW s \in Senders, PeerReady(s) PROVE RateInv'
<1> USE QuotaNat DEF RateInv, TypeOK
<1> DEFINE P == OwnQuota.period
<1>1. debt[s] + P \in 0..OwnQuota.most
  BY AdmitsWithin DEF PeerReady
<1>2. debt' = [debt EXCEPT ![s] = @ + P]
  BY DEF PeerReady
<1>3. taken' = IF watching THEN [taken EXCEPT ![s] = @ + P] ELSE taken
  BY DEF PeerReady, CountedFor
<1>4. UNCHANGED <<shared, watching, age, passes, restarts>>
  BY DEF PeerReady
<1>5. P \in Nat
  OBVIOUS
<1> HIDE DEF P
<1>6. TypeOK'
  <2>1. stage' \in [Senders -> Stages]
    BY DEF PeerReady, Stages
  <2>2. debt' \in [Senders -> 0..OwnQuota.most]
    BY <1>1, <1>2
  <2>3. taken' \in [Senders -> Nat]
    BY <1>3, <1>5
  <2> QED
    BY <2>1, <2>2, <2>3, <1>4
<1>7. PassesPaid'
  BY <1>4 DEF PassesPaid
<1>8. TakenPaid'
  <2> SUFFICES ASSUME NEW q \in Senders
               PROVE  taken'[q] <= age' + debt'[q] + restarts'[q]
    BY DEF TakenPaid
  <2>1. taken[q] <= age + debt[q] + restarts[q]
    BY DEF TakenPaid
  <2>2. /\ taken[q] \in Nat /\ debt[q] \in Nat /\ restarts[q] \in Nat
        /\ age \in Nat
    OBVIOUS
  <2>3. CASE q = s
    <3>1. taken'[q] = taken[q] + P \/ taken'[q] = taken[q]
      BY <2>3, <1>3
    <3>2. debt'[q] = debt[q] + P
      BY <2>3, <1>2
    <3> QED
      BY <3>1, <3>2, <2>1, <2>2, <1>4, <1>5
  <2>4. CASE q # s
    <3>1. taken'[q] = taken[q] /\ debt'[q] = debt[q]
      BY <2>4, <1>2, <1>3
    <3> QED
      BY <3>1, <2>1, <1>4
  <2> QED
    BY <2>3, <2>4
<1>9. Uncounted'
  BY <1>3, <1>4 DEF Uncounted, Zero
<1> QED
  BY <1>6, <1>7, <1>8, <1>9

LEMMA GlobalReadyRate ==
    ASSUME RateInv, NEW s \in Senders, GlobalReady(s) PROVE RateInv'
<1> USE QuotaNat DEF RateInv, TypeOK
<1> DEFINE P == SharedQuota.period
<1>1. shared + P \in 0..SharedQuota.most
  BY AdmitsWithin DEF GlobalReady
<1>2. shared' = shared + P
  BY DEF GlobalReady
<1>3. passes' = IF watching THEN passes + 1 ELSE passes
  BY DEF GlobalReady, Counted
<1>4. UNCHANGED <<debt, watching, age, taken, restarts>>
  BY DEF GlobalReady
<1>5. P \in Nat /\ passes \in Nat /\ age \in Nat /\ shared \in Nat
  OBVIOUS
<1>6. passes * P <= age + shared
  BY DEF PassesPaid
<1>7. (passes + 1) * P = passes * P + P /\ passes * P \in Nat
  BY <1>5, OneMore
<1>8. TypeOK'
  <2>1. stage' \in [Senders -> Stages]
    BY DEF GlobalReady, Stages
  <2>2. passes' \in Nat
    BY <1>3, <1>5
  <2> QED
    BY <2>1, <2>2, <1>1, <1>2, <1>4
<1>9. PassesPaid'
  <2> HIDE DEF P
  <2>1. passes' * P <= age + (shared + P)
    <3>1. CASE watching
      BY <3>1, <1>3, <1>5, <1>6, <1>7
    <3>2. CASE ~watching
      BY <3>2, <1>3, <1>5, <1>6, <1>7
    <3> QED
      BY <3>1, <3>2
  <2> QED
    BY <2>1, <1>2, <1>4 DEF PassesPaid, P
<1>10. TakenPaid'
  BY <1>4 DEF TakenPaid
<1>11. Uncounted'
  BY <1>3, <1>4 DEF Uncounted, Zero
<1> QED
  BY <1>8, <1>9, <1>10, <1>11

LEMMA PostRate ==
    ASSUME RateInv, NEW s \in Senders, Post(s) PROVE RateInv'
<1>1. stage' \in [Senders -> Stages]
  BY DEF RateInv, TypeOK, Post, Stages
<1> QED
  BY <1>1 DEF RateInv, TypeOK, PassesPaid, TakenPaid, Uncounted, Post, limiters,
              window

LEMMA NewSessionRate ==
    ASSUME RateInv, NEW s \in Senders, NewSession(s) PROVE RateInv'
<1> USE QuotaNat DEF RateInv, TypeOK
<1>1. debt' = [debt EXCEPT ![s] = 0]
  BY DEF NewSession
<1>2. restarts' = IF watching THEN [restarts EXCEPT ![s] = @ + debt[s]]
                  ELSE restarts
  BY DEF NewSession, CountedFor
<1>3. UNCHANGED <<stage, shared, watching, age, passes, taken>>
  BY DEF NewSession
<1>4. debt[s] \in Nat
  OBVIOUS
<1>5. TypeOK'
  <2>1. debt' \in [Senders -> 0..OwnQuota.most]
    BY <1>1
  <2>2. restarts' \in [Senders -> Nat]
    BY <1>2, <1>4
  <2> QED
    BY <2>1, <2>2, <1>3
<1>6. PassesPaid'
  BY <1>3 DEF PassesPaid
<1>7. TakenPaid'
  <2> SUFFICES ASSUME NEW q \in Senders
               PROVE  taken'[q] <= age' + debt'[q] + restarts'[q]
    BY DEF TakenPaid
  <2>1. taken[q] <= age + debt[q] + restarts[q]
    BY DEF TakenPaid
  <2>2. /\ taken[q] \in Nat /\ debt[q] \in Nat /\ restarts[q] \in Nat
        /\ age \in Nat
    OBVIOUS
  <2>3. CASE q = s /\ watching
    <3>1. restarts'[q] = restarts[q] + debt[q] /\ debt'[q] = 0
      BY <2>3, <1>1, <1>2
    <3> QED
      BY <3>1, <2>1, <2>2, <1>3
  <2>4. CASE q = s /\ ~watching
    <3>1. taken[q] = 0
      BY <2>4 DEF Uncounted, Zero
    <3>2. restarts'[q] = restarts[q] /\ debt'[q] = 0
      BY <2>4, <1>1, <1>2
    <3> QED
      BY <3>1, <3>2, <2>2, <1>3
  <2>5. CASE q # s
    <3>1. restarts'[q] = restarts[q] /\ debt'[q] = debt[q]
      BY <2>5, <1>1, <1>2
    <3> QED
      BY <3>1, <2>1, <1>3
  <2> QED
    BY <2>3, <2>4, <2>5
<1>8. Uncounted'
  BY <1>3 DEF Uncounted, Zero
<1> QED
  BY <1>5, <1>6, <1>7, <1>8

(* A tick pays off at most one, and not below nothing. *)
LEMMA PayOffOne ==
    /\ \A m \in Nat : \A d \in 0..m : PayOff(d) \in 0..m
    /\ \A d \in Nat : PayOff(d) \in Nat /\ d <= PayOff(d) + 1
BY DEF PayOff

LEMMA OneTickMore ==
    ASSUME NEW o \in Int, NEW a \in Int, NEW d \in Int, NEW e \in Int,
           o <= a + d, d <= e + 1
    PROVE  o <= a + 1 + e
OBVIOUS

LEMMA TickRate ==
    ASSUME RateInv, Tick PROVE RateInv'
<1> USE QuotaNat, RateAssumption DEF RateInv, TypeOK
<1>1. debt' = [s \in Senders |-> PayOff(debt[s])] /\ shared' = PayOff(shared)
      /\ stage' = stage
  BY DEF Tick
<1>2. debt' \in [Senders -> 0..OwnQuota.most] /\ shared' \in 0..SharedQuota.most
  BY <1>1, PayOffOne
<1>3. CASE watching /\ age = MaxWindow
  <2>1. NoWindow
    BY <1>3 DEF Tick
  <2>2. TypeOK'
    <3>1. 0 \in 0..MaxWindow
      OBVIOUS
    <3>2. taken' \in [Senders -> Nat] /\ restarts' \in [Senders -> Nat]
      BY <2>1 DEF NoWindow, Zero
    <3>3. watching' \in BOOLEAN /\ age' \in 0..MaxWindow /\ passes' \in Nat
      BY <2>1, <3>1 DEF NoWindow
    <3> QED
      BY <1>1, <1>2, <3>2, <3>3
  <2>3. PassesPaid'
    <3>1. 0 * SharedQuota.period = 0
      OBVIOUS
    <3> QED
      BY <1>2, <2>1, <3>1 DEF NoWindow, PassesPaid
  <2>4. TakenPaid'
    BY <1>2, <2>1 DEF NoWindow, TakenPaid, Zero
  <2>5. Uncounted'
    BY <2>1 DEF NoWindow, Uncounted, Zero
  <2> QED
    BY <2>2, <2>3, <2>4, <2>5
<1>4. CASE watching /\ age # MaxWindow
  <2>1. age' = age + 1 /\ UNCHANGED <<watching, passes, taken, restarts>>
    BY <1>4 DEF Tick, Counted
  <2>2. TypeOK'
    <3>1. age' \in 0..MaxWindow
      BY <2>1, <1>4
    <3> QED
      BY <1>1, <1>2, <2>1, <3>1
  <2>3. PassesPaid'
    <3>1. passes * SharedQuota.period <= age + shared
      BY DEF PassesPaid
    <3>2. shared <= shared' + 1
      BY <1>1, PayOffOne
    <3>3. passes * SharedQuota.period \in Nat
      BY OneMore
    <3> DEFINE owed == passes * SharedQuota.period
    <3>4. age \in Int /\ shared \in Int /\ shared' \in Int /\ owed \in Int
      BY <3>3, <1>2
    <3>5. passes' * SharedQuota.period = owed
      BY <2>1
    <3> HIDE DEF owed
    <3>6. owed <= age + shared
      BY <3>1 DEF owed
    <3>7. owed <= age + 1 + shared'
      BY <3>2, <3>4, <3>6, OneTickMore
    <3>8. owed <= age' + shared'
      BY <3>7, <2>1
    <3> QED
      BY <3>5, <3>8 DEF PassesPaid
  <2>4. TakenPaid'
    <3> SUFFICES ASSUME NEW q \in Senders
                 PROVE  taken'[q] <= age' + debt'[q] + restarts'[q]
      BY DEF TakenPaid
    <3>1. taken[q] <= age + debt[q] + restarts[q]
      BY DEF TakenPaid
    <3>2. debt'[q] \in Nat /\ debt[q] <= debt'[q] + 1
      BY <1>1, PayOffOne
    <3>3. /\ taken[q] \in Nat /\ debt[q] \in Nat /\ restarts[q] \in Nat
          /\ age \in Nat
      OBVIOUS
    <3> QED
      BY <3>1, <3>2, <3>3, <2>1
  <2>5. Uncounted'
    BY <2>1 DEF Uncounted, Zero
  <2> QED
    BY <2>2, <2>3, <2>4, <2>5
<1>5. CASE ~watching
  <2>1. UNCHANGED <<age, watching, passes, taken, restarts>>
    BY <1>5 DEF Tick, Counted
  <2>2. passes = 0 /\ taken = Zero
    BY <1>5 DEF Uncounted
  <2>3. TypeOK'
    BY <1>1, <1>2, <2>1
  <2>4. PassesPaid'
    <3>1. 0 * SharedQuota.period = 0
      OBVIOUS
    <3> QED
      BY <1>2, <2>1, <2>2, <3>1 DEF PassesPaid
  <2>5. TakenPaid'
    <3> SUFFICES ASSUME NEW q \in Senders
                 PROVE  taken'[q] <= age' + debt'[q] + restarts'[q]
      BY DEF TakenPaid
    <3>1. taken'[q] = 0
      BY <2>1, <2>2 DEF Zero
    <3>2. debt'[q] \in Nat /\ restarts'[q] \in Nat /\ age' \in Nat
      BY <1>2, <2>1
    <3> QED
      BY <3>1, <3>2
  <2>6. Uncounted'
    BY <2>1 DEF Uncounted, Zero
  <2> QED
    BY <2>3, <2>4, <2>5, <2>6
<1> QED
  BY <1>3, <1>4, <1>5

LEMMA OpenWindowRate ==
    ASSUME RateInv, OpenWindow PROVE RateInv'
<1>1. watching' = TRUE /\ UNCHANGED <<stage, limiters, age, passes, taken, restarts>>
  BY DEF OpenWindow
<1> QED
  BY <1>1 DEF RateInv, TypeOK, PassesPaid, TakenPaid, Uncounted, limiters, Zero

(* The invariant is inductive. *)
LEMMA NextRate == RateInv /\ [Next]_vars => RateInv'
<1> SUFFICES ASSUME RateInv, [Next]_vars PROVE RateInv'
  OBVIOUS
<1>1. CASE \E s \in Senders : Recv(s)
  BY <1>1, RecvRate
<1>2. CASE \E s \in Senders : Sender(s)
  BY <1>2, PeerReadyRate, GlobalReadyRate, PostRate DEF Sender
<1>3. CASE \E s \in Senders : NewSession(s)
  BY <1>3, NewSessionRate
<1>4. CASE Tick
  BY <1>4, TickRate
<1>5. CASE OpenWindow
  BY <1>5, OpenWindowRate
<1>6. CASE UNCHANGED vars
  BY <1>6 DEF RateInv, TypeOK, PassesPaid, TakenPaid, Uncounted, vars, limiters,
              window
<1> QED
  BY <1>1, <1>2, <1>3, <1>4, <1>5, <1>6 DEF Next

LEMMA RateInvariant == Spec => []RateInv
BY InitRate, NextRate, PTL DEF Spec

(* Type correctness: a debt never exceeds the burst.                         *)
THEOREM TypeCorrect == Spec => []TypeOK
<1>1. RateInv => TypeOK
  BY DEF RateInv
<1> QED
  BY <1>1, RateInvariant, PTL

(* In any window the shared limiter lets a burst and one item per period     *)
(* pass, for any number of sessions that start and end at any time.          *)
THEOREM GlobalRateBounded == Spec => []GlobalRate
<1>1. RateInv => GlobalRate
  <2> SUFFICES ASSUME RateInv PROVE GlobalRate
    OBVIOUS
  <2>1. passes * SharedQuota.period <= age + shared
    BY DEF RateInv, PassesPaid
  <2>2. shared \in Int /\ shared <= SharedQuota.most /\ age \in Int /\ passes \in Nat
    BY QuotaNat, RateAssumption DEF RateInv, TypeOK
  <2>3. passes * SharedQuota.period \in Nat
    BY <2>2, OneMore, QuotaNat
  <2> QED
    BY <2>1, <2>2, <2>3, QuotaNat DEF GlobalRate
<1> QED
  BY <1>1, RateInvariant, PTL

(* A session's own bound, in any window, whatever the other sessions of its  *)
(* peer send at the same time: it exceeds its quota only by what sessions    *)
(* that came after it in its place were forgiven (peer.rs:130-138, 293).     *)
THEOREM SenderRateBounded == Spec => []SenderRate
<1>1. RateInv => SenderRate
  <2> SUFFICES ASSUME RateInv, NEW s \in Senders
               PROVE  taken[s] <= age + OwnQuota.most + restarts[s]
    BY DEF SenderRate
  <2>1. taken[s] <= age + debt[s] + restarts[s]
    BY DEF RateInv, TakenPaid
  <2>2. /\ debt[s] \in Int /\ debt[s] <= OwnQuota.most /\ age \in Int
        /\ taken[s] \in Int /\ restarts[s] \in Int
    BY QuotaNat, RateAssumption DEF RateInv, TypeOK
  <2> QED
    BY <2>1, <2>2, QuotaNat
<1> QED
  BY <1>1, RateInvariant, PTL
=============================================================================
