----------------------- MODULE VaultConnection_proofs -----------------------
(***************************************************************************)
(* The safety properties of VaultConnection for every backoff.             *)
(***************************************************************************)
EXTENDS VaultConnection, TLAPS

\* While there is a client no error is remembered; while one is, it is that of
\* the last login and its age is the time since.
MemoryInv ==
    /\ client # "none" => memory = "clear" /\ lastLogin = "ok"
    /\ lastLogin = "failed" <=> memory = "failed"
    /\ memory = "failed" => errAge = quiet

\* A second attempt that has a client got it by a login of its own.
AttemptInv ==
    /\ pc = "called" => attempt = 1
    /\ pc \in {"login", "token"} => client = "none"
    /\ pc = "asking" /\ attempt = 2 => origin = "own"

ConnectionInv == ConnectionTypeOK /\ MemoryInv /\ AttemptInv

\* The initial state of a process satisfies the invariant.
LEMMA InitInv == ConnectionInit => ConnectionInv
  BY ConnectionAssumption
  DEF ConnectionInit, ConnectionInv, ConnectionTypeOK, MemoryInv, AttemptInv, Answers

\* Every step keeps the invariant.
LEMMA NextInv == ConnectionInv /\ [ConnectionNext]_connection => ConnectionInv'
<1> SUFFICES ASSUME ConnectionInv, [ConnectionNext]_connection
             PROVE  ConnectionInv'
  OBVIOUS
<1> USE ConnectionAssumption
    DEF ConnectionInv, ConnectionTypeOK, MemoryInv, AttemptInv, Answers
<1>1. CASE Call
  BY <1>1 DEF Call
<1>2. CASE GetClient
  BY <1>2 DEF GetClient, VaultClient, Remembered
<1>3. CASE Prelogin
  BY <1>3 DEF Prelogin
<1>4. CASE LoginOk
  BY <1>4 DEF LoginOk
<1>5. CASE LoginFails
  BY <1>5 DEF LoginFails, DateOf
<1>6. CASE Served \/ Rejected \/ Failed \/ RefusedAgain
  BY <1>6 DEF Served, Rejected, Failed, RefusedAgain, Reply
<1>7. CASE RefusedOnce
  BY <1>7 DEF RefusedOnce, VaultClient, Remembered, Drop, GivesUp
<1>8. CASE Expire
  BY <1>8 DEF Expire
<1>9. CASE Turn
  BY <1>9 DEF Turn
<1>10. CASE Tick
  BY <1>10 DEF Tick, Later
<1>11. CASE Restart
  BY <1>11 DEF Restart
<1>12. CASE UNCHANGED connection
  BY <1>12 DEF connection
<1> QED
  BY <1>1, <1>2, <1>3, <1>4, <1>5, <1>6, <1>7, <1>8, <1>9, <1>10, <1>11, <1>12
  DEF ConnectionNext

\* Every reachable state is well typed (server.go:97-101).
THEOREM ConnectionTypes == ConnectionSpec => []ConnectionTypeOK
<1>1. ConnectionInv => ConnectionTypeOK
  BY DEF ConnectionInv
<1> QED
  BY <1>1, InitInv, NextInv, PTL DEF ConnectionSpec

\* No login begins within the backoff of a failed one (server.go:124-140): the age
\* of the remembered error is the time since that login ended.
THEOREM BackoffKept == ConnectionSpec => BackoffHonoured
<1>1. ConnectionInv /\ [ConnectionNext]_connection =>
        [pc' = "login" /\ pc # "login" /\ lastLogin = "failed" => quiet = Backoff]_connection
  <2> SUFFICES ASSUME ConnectionInv, ConnectionNext,
                      pc' = "login", pc # "login", lastLogin = "failed"
               PROVE  quiet = Backoff
    BY DEF connection
  <2> USE ConnectionAssumption
      DEF ConnectionInv, ConnectionTypeOK, MemoryInv, AttemptInv
  <2>1. CASE GetClient
    BY <2>1 DEF GetClient, VaultClient, Remembered
  <2>2. CASE RefusedOnce
    BY <2>2 DEF RefusedOnce
  <2>3. CASE ~(GetClient \/ RefusedOnce)
    BY <2>3 DEF ConnectionNext, Call, Prelogin, LoginOk, LoginFails, Served, Rejected,
                Failed, RefusedAgain, Reply, Expire, Turn, Tick, Restart
  <2> QED
    BY <2>1, <2>2, <2>3
<1> QED
  BY <1>1, InitInv, NextInv, PTL DEF ConnectionSpec, BackoffHonoured

\* What is answered from memory is the failure of the last login, and recent
\* (server.go:124-140).
THEOREM MemoryKept == ConnectionSpec => MemoryIsOfLastLogin
<1>1. ConnectionInv /\ [ConnectionNext]_connection =>
        [answer' = "remembered" => lastLogin = "failed" /\ quiet < Backoff]_connection
  <2> SUFFICES ASSUME ConnectionInv, ConnectionNext, answer' = "remembered"
               PROVE  lastLogin = "failed" /\ quiet < Backoff
    BY DEF connection
  <2> USE ConnectionAssumption
      DEF ConnectionInv, ConnectionTypeOK, MemoryInv, AttemptInv
  <2>1. CASE GetClient
    BY <2>1 DEF GetClient, VaultClient, Remembered
  <2>2. CASE RefusedOnce
    BY <2>2 DEF RefusedOnce, VaultClient, Remembered
  <2>3. CASE ~(GetClient \/ RefusedOnce)
    BY <2>3 DEF ConnectionNext, Call, Prelogin, LoginOk, LoginFails, Served, Rejected,
                Failed, RefusedAgain, Reply, Expire, Turn, Tick, Restart
  <2> QED
    BY <2>1, <2>2, <2>3
<1> QED
  BY <1>1, InitInv, NextInv, PTL DEF ConnectionSpec, MemoryIsOfLastLogin

\* A call that ends with a refusal was refused with a token of its own
\* (server.go:142-160).
THEOREM RefusalsAreFresh == ConnectionSpec => RefusedOnlyAfterOwnLogin
<1>1. ConnectionInv /\ [ConnectionNext]_connection =>
        [answer' = "refused" => origin = "own" /\ attempt = 2]_connection
  <2> SUFFICES ASSUME ConnectionInv, ConnectionNext, answer' = "refused"
               PROVE  origin = "own" /\ attempt = 2
    BY DEF connection
  <2> USE DEF ConnectionInv, ConnectionTypeOK, MemoryInv, AttemptInv
  <2>1. CASE RefusedAgain
    BY <2>1 DEF RefusedAgain, Reply, GivesUp
  <2>2. CASE ~RefusedAgain
    BY <2>2 DEF ConnectionNext, Call, GetClient, Prelogin, LoginOk, LoginFails, Served, Rejected,
                Failed, RefusedOnce, VaultClient, Reply, Expire, Turn, Tick, Restart
  <2> QED
    BY <2>1, <2>2
<1> QED
  BY <1>1, InitInv, NextInv, PTL DEF ConnectionSpec, RefusedOnlyAfterOwnLogin

\* The steps a call may still take.
LEMMA StepsLeftBounds == ConnectionInv => StepsLeft \in 0..8 /\ (StepsLeft = 0 <=> pc = "idle")
  BY DEF ConnectionInv, ConnectionTypeOK, StepsLeft

\* Each step of a call brings it nearer to its end, and no other step puts it back
\* (server.go:142-160): with the fairness of Goes, this is why it ends.
THEOREM CallsAreBounded == ConnectionSpec => CallsRunDown
<1>1. ConnectionInv /\ [ConnectionNext]_connection =>
        [IF Goes THEN StepsLeft' < StepsLeft
                 ELSE StepsLeft' <= StepsLeft \/ pc = "idle"]_connection
  <2> SUFFICES ASSUME ConnectionInv, ConnectionNext
               PROVE  /\ Goes => StepsLeft' < StepsLeft
                      /\ Goes \/ StepsLeft' <= StepsLeft \/ pc = "idle"
    BY DEF connection
  <2> USE DEF ConnectionInv, ConnectionTypeOK, AttemptInv, StepsLeft
  <2>1. ASSUME GetClient
        PROVE  StepsLeft' < StepsLeft
    BY <2>1 DEF GetClient, VaultClient
  <2>2. ASSUME Prelogin \/ LoginOk \/ LoginFails
        PROVE  StepsLeft' < StepsLeft
    BY <2>2 DEF Prelogin, LoginOk, LoginFails
  <2>3. ASSUME Served \/ Rejected \/ Failed \/ RefusedAgain
        PROVE  StepsLeft' < StepsLeft
    BY <2>3 DEF Served, Rejected, Failed, RefusedAgain, Reply
  <2>4. ASSUME RefusedOnce
        PROVE  StepsLeft' < StepsLeft
    BY <2>4 DEF RefusedOnce, VaultClient, Drop, GivesUp
  <2>5. ASSUME Call
        PROVE  pc = "idle"
    BY <2>5 DEF Call
  <2>6. ASSUME Expire \/ Turn \/ Tick
        PROVE  StepsLeft' = StepsLeft
    BY <2>6 DEF Expire, Turn, Tick
  <2>7. ASSUME Restart
        PROVE  StepsLeft' <= StepsLeft
    BY <2>7 DEF Restart
  <2>8. StepsLeft \in Int
    OBVIOUS
  <2> QED
    BY <2>1, <2>2, <2>3, <2>4, <2>5, <2>6, <2>7, <2>8 DEF Goes, ConnectionNext
<1> QED
  BY <1>1, InitInv, NextInv, PTL DEF ConnectionSpec, CallsRunDown
=============================================================================
