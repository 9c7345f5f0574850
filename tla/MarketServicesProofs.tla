------------------------ MODULE MarketServicesProofs ------------------------
(***************************************************************************)
(* Tokens, for any processes, lifetimes and contents of the cache file;    *)
(* the websockets, for any number of readers, sessions and trades; the     *)
(* calendar, for any days, holidays and pages; and the contract master,    *)
(* for any files: all beside one another, as the specification composes    *)
(* them.                                                                   *)
(***************************************************************************)
EXTENDS MarketServices, FiniteSetTheorems, SequenceTheorems, TLAPS

\* What an action of one manager does to the others.
Others(m) ==
    \A n \in Managers \ {m} :
        current'[n] = current[n] /\ saving'[n] = saving[n] /\ answer'[n] = answer[n]

AuthFunctions ==
    /\ current \in [Managers -> Tokens]
    /\ saving \in [Managers -> Tokens]
    /\ answer \in [Managers -> [how : {"none", "pending", "error", "token"}, token : Tokens]]

AuthInv == AuthFunctions /\ AuthTypeOK

\* The part of the type invariant about one manager.
ManagerOK(m) ==
    /\ current[m] \in Tokens /\ ~current[m].mock
    /\ saving[m] \in {NoToken, current[m]}
    /\ answer[m].how \in {"none", "pending", "error", "token"}
    /\ answer[m].token \in Tokens
    /\ saving[m] # NoToken <=> answer[m].how = "pending"
-----------------------------------------------------------------------------
LEMMA TokenTypes ==
    /\ NoToken \in Tokens /\ ~NoToken.mock
    /\ Unreadable \in Tokens
    /\ Silent.how = "none" /\ Pending.how = "pending" /\ Raised.how = "error"
    /\ Silent.token = NoToken /\ Pending.token = NoToken /\ Raised.token = NoToken
    /\ \A token : Given(token).how = "token" /\ Given(token).token = token
    /\ {Silent, Pending, Raised} \cup {Given(token) : token \in Tokens}
         \subseteq [how : {"none", "pending", "error", "token"}, token : Tokens]
<1>1. 0 \in Times
  BY AuthAssumption DEF Times
<1>2. NoToken \in Tokens /\ ~NoToken.mock /\ Unreadable \in Tokens
  BY <1>1 DEF NoToken, Unreadable, Token, Tokens
<1> QED
  BY <1>2 DEF Silent, Pending, Raised, Given

\* A valid token of the file is one of the broker's.
LEMMA ValidIsReal ==
  ASSUME NEW token \in Tokens
  PROVE  LET kept == IF Valid(token) THEN token ELSE NoToken
         IN  kept \in Tokens /\ ~kept.mock
  BY TokenTypes DEF Valid

LEMMA InitAuth == Init => AuthInv
<1> SUFFICES ASSUME AuthInit PROVE AuthInv
  BY DEF Init
<1>1. cache \in Tokens /\ now \in Times
  BY AuthAssumption DEF AuthInit, Times
<1> DEFINE kept == IF Valid(cache) THEN cache ELSE NoToken
<1>2. kept \in Tokens /\ ~kept.mock
  BY <1>1, ValidIsReal
<1>3. /\ current = [m \in Managers |-> kept]
      /\ saving = [m \in Managers |-> NoToken]
      /\ answer = [m \in Managers |-> Silent]
  BY DEF AuthInit
<1> HIDE DEF kept
<1>4. AuthFunctions
  BY <1>2, <1>3, TokenTypes DEF AuthFunctions
<1>5. ASSUME NEW m \in Managers PROVE ManagerOK(m)
  BY <1>2, <1>3, TokenTypes DEF ManagerOK
<1> QED
  BY <1>1, <1>4, <1>5 DEF AuthInv, AuthTypeOK, ManagerOK

\* One manager moves to fitting values, and the others do not.
LEMMA ManagerMoves ==
  ASSUME AuthInv, NEW m \in Managers, Others(m), AuthFunctions', ManagerOK(m)',
         now' \in Times, cache' \in Tokens
  PROVE  AuthInv'
<1>1. ASSUME NEW n \in Managers PROVE ManagerOK(n)'
  <2>1. CASE n = m
    BY <2>1
  <2>2. CASE n # m
    BY <2>2 DEF Others, ManagerOK, AuthInv, AuthTypeOK
  <2> QED
    BY <2>1, <2>2
<1> QED
  BY <1>1 DEF AuthInv, AuthTypeOK, ManagerOK

\* What one call, save or restart of a manager promises its caller.
Usable(m) ==
    answer'[m] # answer[m] /\ answer'[m].how = "token"
       => \/ Valid(answer'[m].token)
          \/ answer[m].how = "pending" /\ current[m] = answer'[m].token
Kept(m) ==
    /\ current'[m] # current[m]
    /\ answer'[m] # Silent
    => current'[m].at = now /\ answer'[m] = Pending

AskPromise(m) == AuthInv' /\ Others(m) /\ Usable(m) /\ Kept(m)

\* Only the answer changes.
LEMMA AnswerPromise ==
  ASSUME AuthInv, NEW m \in Managers,
         NEW said, said = Raised \/ \E token \in Tokens : Valid(token) /\ said = Given(token),
         saving[m] = NoToken,
         answer' = [answer EXCEPT ![m] = said],
         UNCHANGED <<now, cache, current, saving>>
  PROVE  AskPromise(m)
<1>1. /\ said \in [how : {"none", "pending", "error", "token"}, token : Tokens]
      /\ said.how \in {"error", "token"} /\ said.token \in Tokens
      /\ said.how = "token" => Valid(said.token)
  BY TokenTypes DEF Raised, Given
<1>2. /\ answer'[m] = said
      /\ Others(m)
      /\ AuthFunctions'
  BY <1>1 DEF Others, AuthInv, AuthFunctions
<1>3. ManagerOK(m)'
  BY <1>1, <1>2 DEF ManagerOK, AuthInv, AuthTypeOK
<1>4. AuthInv'
  BY <1>2, <1>3, ManagerMoves DEF AuthInv, AuthTypeOK
<1>5. Usable(m)
  BY <1>1, <1>2 DEF Usable
<1>6. Kept(m)
  BY DEF Kept
<1> QED
  BY <1>2, <1>4, <1>5, <1>6 DEF AskPromise

LEMMA ReceivedPromise ==
  ASSUME AuthInv, NEW m \in Managers, NEW life \in Lives, saving[m] = NoToken,
         Received(m, life), UNCHANGED <<now, cache>>
  PROVE  AskPromise(m)
<1> DEFINE token == Token(now, now + life, FALSE)
<1>1. /\ token \in Tokens /\ ~token.mock /\ token # NoToken /\ token.at = now
  BY AuthAssumption DEF Token, Tokens, NoToken, Times, AuthInv, AuthTypeOK
<1>2. /\ current' = [current EXCEPT ![m] = token]
      /\ saving' = [saving EXCEPT ![m] = token]
      /\ answer' = [answer EXCEPT ![m] = Pending]
  BY DEF Received
<1> HIDE DEF token
<1>3. /\ current'[m] = token /\ saving'[m] = token /\ answer'[m] = Pending
      /\ Others(m)
      /\ AuthFunctions'
  BY <1>1, <1>2, TokenTypes DEF Others, AuthInv, AuthFunctions
<1>4. ManagerOK(m)'
  BY <1>1, <1>3, TokenTypes DEF ManagerOK
<1>5. AuthInv'
  BY <1>3, <1>4, ManagerMoves DEF AuthInv, AuthTypeOK
<1> QED
  BY <1>1, <1>3, <1>5, TokenTypes DEF AskPromise, Usable, Kept

LEMMA AskKeepsPromise ==
  ASSUME AuthInv, NEW m \in Managers, NEW force \in BOOLEAN, Ask(m, force)
  PROVE  AskPromise(m)
<1>1. saving[m] = NoToken /\ current[m] \in Tokens /\ UNCHANGED <<now, cache>>
  BY DEF Ask, AuthInv, AuthFunctions
<1>2. CASE ~force /\ Valid(current[m])
  BY <1>1, <1>2, AnswerPromise, TokenTypes DEF Ask
<1>3. CASE Issue(m)
  <2>1. ASSUME NEW life \in Lives, Received(m, life)
        PROVE  AskPromise(m)
    BY <1>1, <2>1, ReceivedPromise
  <2>2. CASE Refused(m)
    <3>1. CASE Valid(current[m])
      BY <1>1, <2>2, <3>1, AnswerPromise, TokenTypes DEF Refused
    <3>2. CASE ~Valid(current[m])
      BY <1>1, <2>2, <3>2, AnswerPromise, TokenTypes DEF Refused
    <3> QED
      BY <3>1, <3>2
  <2>3. CASE Failed(m)
    BY <1>1, <2>3, AnswerPromise, TokenTypes DEF Failed
  <2> QED
    BY <1>3, <2>1, <2>2, <2>3 DEF Issue
<1> QED
  BY <1>2, <1>3 DEF Ask

LEMMA SaveKeepsPromise ==
  ASSUME AuthInv, NEW m \in Managers, Save(m)
  PROVE  AskPromise(m)
<1>1. /\ saving[m] # NoToken /\ saving[m] = current[m] /\ answer[m].how = "pending"
      /\ current[m] \in Tokens /\ saving[m] \in Tokens
  BY DEF Save, AuthInv, AuthTypeOK
<1>2. cache' \in Tokens
  BY <1>1, TokenTypes DEF Save, AuthInv, AuthTypeOK
<1>3. /\ saving' = [saving EXCEPT ![m] = NoToken]
      /\ answer' = [answer EXCEPT ![m] = Given(current[m])]
      /\ UNCHANGED <<now, current>>
  BY DEF Save
<1>4. /\ saving'[m] = NoToken /\ answer'[m] = Given(current[m])
      /\ Others(m)
      /\ AuthFunctions'
  BY <1>1, <1>3, TokenTypes DEF Others, AuthInv, AuthFunctions
<1>5. ManagerOK(m)'
  BY <1>1, <1>3, <1>4, TokenTypes DEF ManagerOK, AuthInv, AuthTypeOK
<1>6. AuthInv'
  BY <1>2, <1>3, <1>4, <1>5, ManagerMoves DEF AuthInv, AuthTypeOK
<1> QED
  BY <1>1, <1>3, <1>4, <1>6, TokenTypes DEF AskPromise, Usable, Kept

LEMMA RestartKeepsPromise ==
  ASSUME AuthInv, NEW m \in Managers, Restart(m)
  PROVE  AskPromise(m)
<1>1. cache' \in Tokens
  BY TokenTypes DEF Restart, AuthInv, AuthTypeOK
<1> DEFINE kept == IF Valid(cache') THEN cache' ELSE NoToken
<1>2. kept \in Tokens /\ ~kept.mock
  BY <1>1, TokenTypes DEF Valid
<1>3. /\ current' = [current EXCEPT ![m] = kept]
      /\ saving' = [saving EXCEPT ![m] = NoToken]
      /\ answer' = [answer EXCEPT ![m] = Silent]
      /\ now' = now
  BY DEF Restart
<1> HIDE DEF kept
<1>4. /\ current'[m] = kept /\ saving'[m] = NoToken /\ answer'[m] = Silent
      /\ Others(m)
      /\ AuthFunctions'
  BY <1>2, <1>3, TokenTypes DEF Others, AuthInv, AuthFunctions
<1>5. ManagerOK(m)'
  BY <1>2, <1>4, TokenTypes DEF ManagerOK
<1>6. AuthInv'
  BY <1>1, <1>3, <1>4, <1>5, ManagerMoves DEF AuthInv, AuthTypeOK
<1> QED
  BY <1>4, <1>6, TokenTypes DEF AskPromise, Usable, Kept

\* Every step is one of these of some manager, or leaves the tokens alone.
LEMMA AuthStep ==
  ASSUME AuthInv, [Next]_vars
  PROVE  \/ \E m \in Managers : AskPromise(m)
         \/ AuthInv' /\ UNCHANGED <<current, saving, answer>>
<1>1. ASSUME NEW m \in Managers, NEW force \in BOOLEAN, CallToken(m, force)
      PROVE  AskPromise(m)
  BY <1>1, AskKeepsPromise DEF CallToken
<1>2. ASSUME NEW m \in Managers, SaveToken(m) \/ RestartOther(m)
      PROVE  AskPromise(m)
  BY <1>2, SaveKeepsPromise, RestartKeepsPromise DEF SaveToken, RestartOther
<1>3. CASE AskForPage
  BY <1>3, AskKeepsPromise, ServicesAssumption DEF AskForPage
<1>4. CASE Clock
  <2>1. now' \in Times /\ UNCHANGED <<current, saving, cache, answer>>
    BY <1>4, AuthAssumption DEF Clock, TimePasses, Times, AuthInv, AuthTypeOK
  <2> QED
    BY <2>1 DEF AuthInv, AuthFunctions, AuthTypeOK
<1>5. CASE UNCHANGED authVars
  BY <1>5 DEF authVars, AuthInv, AuthFunctions, AuthTypeOK
<1>6. CASE UNCHANGED serviceVars
  BY <1>5, <1>6 DEF serviceVars
<1>7. CASE Services
  BY <1>7, <1>1, <1>2, <1>3, <1>4, <1>5
  DEF Services, LoadCalendar, PageArrives, PageFails, LoadContracts
<1> QED
  BY <1>6, <1>7 DEF Next, vars

LEMMA NextAuth == AuthInv /\ [Next]_vars => AuthInv'
  BY AuthStep DEF AskPromise

LEMMA StepIsUsable ==
  ASSUME AuthInv, [Next]_vars, NEW m \in Managers
  PROVE  Usable(m) /\ Kept(m)
<1>1. ASSUME NEW n \in Managers, AskPromise(n)
      PROVE  Usable(m) /\ Kept(m)
  BY <1>1 DEF AskPromise, Others, Usable, Kept
<1>2. CASE UNCHANGED <<current, saving, answer>>
  BY <1>2 DEF Usable, Kept
<1> QED
  BY <1>1, <1>2, AuthStep
-----------------------------------------------------------------------------
\* The websockets.

\* Of a queue: who is in it, who stands before whom, and that each stands in it
\* once.
In(q, x) == \E n \in DOMAIN q : q[n] = x
Precedes(q, x, y) == \E n, m \in DOMAIN q : n < m /\ q[n] = x /\ q[m] = y
Once(q) == \A n, m \in DOMAIN q : q[n] = q[m] => n = m

LEMMA RemovalKeepsOrder ==
  ASSUME NEW S, NEW q \in Seq(S), Once(q), NEW at \in DOMAIN q, NEW p, p = RemoveAt(q, at)
  PROVE  /\ p \in Seq(S) /\ Once(p)
         /\ \A x : In(p, x) => In(q, x) /\ x # q[at]
         /\ \A x, y : Precedes(p, x, y) => Precedes(q, x, y)
<1> DEFINE k == Len(q)
           from(n) == IF n < at THEN n ELSE n + 1
<1>1. k \in Nat /\ DOMAIN q = 1 .. k /\ at \in 1 .. k
  BY LenProperties
<1> DEFINE front == SubSeq(q, 1, at - 1)
           rear == SubSeq(q, at + 1, k)
<1>2. /\ front \in Seq(S) /\ Len(front) = at - 1
      /\ \A n \in 1 .. at - 1 : front[n] = q[n]
  BY <1>1
<1>3. /\ rear \in Seq(S) /\ Len(rear) = k - at
      /\ \A n \in 1 .. k - at : rear[n] = q[at + n]
  BY <1>1
<1>a. p = front \o rear
  BY DEF RemoveAt
<1> HIDE DEF k, front, rear
<1>4. /\ p \in Seq(S) /\ DOMAIN p = 1 .. k - 1
      /\ \A n \in 1 .. k - 1 : p[n] = q[from(n)]
  <2>1. p \in Seq(S) /\ Len(p) = k - 1 /\ DOMAIN p = 1 .. Len(p)
    <3>1. p \in Seq(S) /\ Len(p) = Len(front) + Len(rear)
      BY <1>2, <1>3, <1>a, ConcatProperties
    <3>2. DOMAIN p = 1 .. Len(p)
      BY <3>1, LenProperties
    <3> QED
      BY <3>1, <3>2, <1>1, <1>2, <1>3
  <2>2. ASSUME NEW n \in 1 .. k - 1
        PROVE  p[n] = IF n < at THEN front[n] ELSE rear[n - (at - 1)]
    BY <1>1, <1>2, <1>3, <1>a, ConcatProperties
  <2>3. ASSUME NEW n \in 1 .. k - 1
        PROVE  p[n] = q[from(n)]
    <3>1. CASE n < at
      BY <3>1, <2>2, <1>1, <1>2
    <3>2. CASE ~(n < at)
      <4>1. n - (at - 1) \in 1 .. k - at /\ at + (n - (at - 1)) = n + 1
        BY <3>2, <1>1
      <4> QED
        BY <4>1, <3>2, <2>2, <1>3
    <3> QED
      BY <3>1, <3>2
  <2> QED
    BY <2>1, <2>3
<1>5. \A n \in 1 .. k - 1 : from(n) \in 1 .. k /\ from(n) # at
  BY <1>1
<1>6. \A n, m \in 1 .. k - 1 : /\ n < m => from(n) < from(m)
                               /\ from(n) = from(m) => n = m
  BY <1>1
<1> HIDE DEF from
<1>7. Once(p)
  BY <1>1, <1>4, <1>5, <1>6 DEF Once
<1>8. ASSUME NEW x, In(p, x)
      PROVE  In(q, x) /\ x # q[at]
  BY <1>1, <1>4, <1>5, <1>8 DEF In, Once
<1>9. ASSUME NEW x, NEW y, Precedes(p, x, y)
      PROVE  Precedes(q, x, y)
  <2>1. PICK n, m \in DOMAIN p : n < m /\ p[n] = x /\ p[m] = y
    BY <1>9 DEF Precedes
  <2>2. from(n) \in DOMAIN q /\ from(m) \in DOMAIN q /\ from(n) < from(m)
        /\ q[from(n)] = x /\ q[from(m)] = y
    BY <2>1, <1>1, <1>4, <1>5, <1>6
  <2> QED
    BY <2>2 DEF Precedes
<1> QED
  BY <1>4, <1>7, <1>8, <1>9

LEMMA TailKeepsOrder ==
  ASSUME NEW S, NEW q \in Seq(S), Once(q), q # <<>>, NEW p, p = Tail(q)
  PROVE  /\ p \in Seq(S) /\ Once(p)
         /\ \A x : In(p, x) => In(q, x) /\ x # Head(q)
         /\ \A x, y : Precedes(p, x, y) => Precedes(q, x, y)
<1> DEFINE k == Len(q)
<1>1. k \in Nat /\ DOMAIN q = 1 .. k /\ k # 0 /\ Head(q) = q[1]
  BY LenProperties, EmptySeq
<1>2. /\ p \in Seq(S) /\ DOMAIN p = 1 .. k - 1
      /\ \A n \in 1 .. k - 1 : p[n] = q[n + 1]
  BY <1>1
<1> HIDE DEF k
<1>3. Once(p)
  BY <1>1, <1>2 DEF Once
<1>4. ASSUME NEW x, In(p, x)
      PROVE  In(q, x) /\ x # Head(q)
  <2>1. PICK n \in 1 .. k - 1 : q[n + 1] = x
    BY <1>2, <1>4 DEF In
  <2>2. n + 1 \in 1 .. k /\ n + 1 # 1 /\ 1 \in 1 .. k
    BY <1>1
  <2> QED
    BY <2>1, <2>2, <1>1 DEF In, Once
<1>5. ASSUME NEW x, NEW y, Precedes(p, x, y)
      PROVE  Precedes(q, x, y)
  <2>0. PICK n, m \in DOMAIN p : n < m /\ p[n] = x /\ p[m] = y
    BY <1>5 DEF Precedes
  <2>1. n \in 1 .. k - 1 /\ m \in 1 .. k - 1 /\ n < m /\ q[n + 1] = x /\ q[m + 1] = y
    BY <2>0, <1>2
  <2>2. n + 1 \in 1 .. k /\ m + 1 \in 1 .. k /\ n + 1 < m + 1
    BY <1>1, <2>1
  <2> QED
    BY <2>1, <2>2, <1>1 DEF Precedes
<1> QED
  BY <1>2, <1>3, <1>4, <1>5

LEMMA AppendAddsLast ==
  ASSUME NEW S, NEW q \in Seq(S), Once(q), NEW x \in S, ~In(q, x), NEW p, p = Append(q, x)
  PROVE  /\ p \in Seq(S) /\ Once(p)
         /\ \A y : In(p, y) => In(q, y) \/ y = x
         /\ \A y, z : Precedes(p, y, z) => Precedes(q, y, z) \/ (In(q, y) /\ z = x)
<1> DEFINE k == Len(q)
<1>1. k \in Nat /\ DOMAIN q = 1 .. k
  BY LenProperties
<1>2. /\ p \in Seq(S) /\ DOMAIN p = 1 .. k + 1
      /\ \A n \in 1 .. k : p[n] = q[n]
      /\ p[k + 1] = x
  BY <1>1
<1> HIDE DEF k
<1>3. \A n \in 1 .. k + 1 : n \in 1 .. k \/ n = k + 1
  BY <1>1
<1>4. Once(p)
  BY <1>1, <1>2, <1>3 DEF Once, In
<1>5. ASSUME NEW y, In(p, y)
      PROVE  In(q, y) \/ y = x
  BY <1>1, <1>2, <1>3, <1>5 DEF In
<1>6. ASSUME NEW y, NEW z, Precedes(p, y, z)
      PROVE  Precedes(q, y, z) \/ (In(q, y) /\ z = x)
  <2>1. PICK n, m \in 1 .. k + 1 : n < m /\ p[n] = y /\ p[m] = z
    BY <1>2, <1>6 DEF Precedes
  <2>2. n \in 1 .. k /\ q[n] = y
    BY <2>1, <1>1, <1>2
  <2>3. CASE m = k + 1
    BY <2>1, <2>2, <2>3, <1>1, <1>2 DEF In
  <2>4. CASE m \in 1 .. k
    BY <2>1, <2>2, <2>4, <1>1, <1>2 DEF Precedes
  <2> QED
    BY <2>3, <2>4, <1>3
<1> QED
  BY <1>2, <1>4, <1>5, <1>6

LEMMA HeadIsFirst ==
  ASSUME NEW S, NEW q \in Seq(S), q # <<>>
  PROVE  /\ Head(q) \in S /\ In(q, Head(q))
         /\ \A x : In(q, x) /\ x # Head(q) => Precedes(q, Head(q), x)
<1> DEFINE k == Len(q)
<1>1. k \in Nat /\ DOMAIN q = 1 .. k /\ k # 0 /\ Head(q) = q[1] /\ q[1] \in S
  BY LenProperties, EmptySeq
<1> HIDE DEF k
<1>2. 1 \in DOMAIN q /\ \A n \in DOMAIN q : n = 1 \/ 1 < n
  BY <1>1
<1> QED
  BY <1>1, <1>2 DEF In, Precedes

-----------------------------------------------------------------------------
Kinds == {"none", "control", "key", "notice", "quote", "trade"}
Frame == [kind : Kinds, trade : 0 .. MaxTrades]
Awaits == Topics \cup {"nothing", "connection"}

NetworkTyped ==
    /\ network \in [of : Seq(Streams), open : SUBSET Nat, topics : SUBSET (Nat \X Awaits),
                    keyed : SUBSET Nat, sent : Seq(Nat), traded : 0 .. MaxTrades,
                    wire : Seq(Frame)]
    /\ Len(network.sent) = Len(network.of)
    /\ Len(network.wire) = Len(network.of)

SocketTyped ==
    /\ socket \in [Streams -> Nat]
    /\ awaited \in [Streams -> Awaits]
    /\ reading \in [Readers -> Nat]
    /\ ready \in Seq(Readers) /\ Once(ready)
    /\ past \in [told : SUBSET Nat, doubled : BOOLEAN,
                 handed : [session : Nat, key : Nat]]
    /\ NetworkTyped

\* What a step of the network leaves as it is, but for the frames.
SameSessions ==
    /\ network'.of = network.of
    /\ network'.open = network.open /\ network'.keyed = network.keyed
    /\ network'.sent = network.sent /\ network'.traded = network.traded

LEMMA OneLonger ==
  ASSUME NEW S, NEW q \in Seq(S), NEW x \in S, NEW p, p = Append(q, x)
  PROVE  /\ p \in Seq(S) /\ Len(p) = Len(q) + 1
         /\ DOMAIN q = 1 .. Len(q) /\ DOMAIN p = 1 .. Len(q) + 1
         /\ p[Len(q) + 1] = x /\ \A n \in 1 .. Len(q) : p[n] = q[n]
<1>1. Len(q) \in Nat /\ DOMAIN q = 1 .. Len(q)
  BY LenProperties
<1> QED
  BY <1>1, AppendProperties

LEMMA SequenceOf ==
  ASSUME NEW S, NEW k \in Nat, NEW f \in [1 .. k -> S]
  PROVE  f \in Seq(S) /\ Len(f) = k
  BY SeqDef, LenProperties

LEMMA SessionsAreNumbered ==
  ASSUME NetworkTyped
  PROVE  /\ Len(network.of) \in Nat
         /\ DOMAIN network.of = 1 .. Len(network.of)
         /\ network.of \in [1 .. Len(network.of) -> Streams]
         /\ network.sent \in [1 .. Len(network.of) -> Nat]
         /\ network.wire \in [1 .. Len(network.of) -> Frame]
         /\ \A t \in Streams : SessionsOf(t) \subseteq 1 .. Len(network.of)
<1>1. /\ network.of \in Seq(Streams) /\ network.sent \in Seq(Nat)
      /\ network.wire \in Seq(Frame)
      /\ Len(network.sent) = Len(network.of) /\ Len(network.wire) = Len(network.of)
  BY DEF NetworkTyped
<1> QED
  BY <1>1, LenProperties DEF SessionsOf

LEMMA WireEmptied ==
  ASSUME NetworkTyped, NEW s \in DOMAIN network.of,
         network' = [network EXCEPT !.wire[s] = NoFrame]
  PROVE  /\ NetworkTyped' /\ SameSessions
         /\ network'.wire = [network.wire EXCEPT ![s] = NoFrame]
<1>1. network'.wire = [network.wire EXCEPT ![s] = NoFrame] /\ SameSessions
  BY DEF NetworkTyped, SameSessions
<1>2. NoFrame \in Frame
  BY SocketAssumption DEF NoFrame, Frame, Kinds
<1> DEFINE k == Len(network.of)
           w == network'.wire
<1>3. k \in Nat /\ w \in [1 .. k -> Frame]
  BY <1>1, <1>2, SessionsAreNumbered
<1>4. w \in Seq(Frame) /\ Len(w) = k
  <2> HIDE DEF k, w
  <2> QED
    BY <1>3, SequenceOf
<1> HIDE DEF w
<1>5. network' \in [of : Seq(Streams), open : SUBSET Nat, topics : SUBSET (Nat \X Awaits),
                    keyed : SUBSET Nat, sent : Seq(Nat), traded : 0 .. MaxTrades,
                    wire : Seq(Frame)]
  <2>1. network' = [network EXCEPT !.wire = w]
    BY DEF NetworkTyped, w
  <2> QED
    BY <2>1, <1>4 DEF NetworkTyped
<1> QED
  BY <1>1, <1>4, <1>5 DEF NetworkTyped, SameSessions, w

LEMMA SessionMade ==
  ASSUME NetworkTyped, NEW t \in Streams, NEW session, session = Len(network.of) + 1,
         network' = [network EXCEPT !.of = Append(@, t), !.open = @ \cup {session},
                                    !.sent = Append(@, network.traded),
                                    !.wire = Append(@, NoFrame)]
  PROVE  /\ NetworkTyped'
         /\ network'.open = network.open \cup {session}
         /\ network'.keyed = network.keyed /\ network'.traded = network.traded
         /\ session \in Nat \ {NoSession} /\ session \notin DOMAIN network.of
         /\ network'.sent[session] = network.traded /\ network'.wire[session] = NoFrame
         /\ \A s \in DOMAIN network.of : /\ network'.sent[s] = network.sent[s]
                                         /\ network'.wire[s] = network.wire[s]
         /\ SessionsOf(t)' = SessionsOf(t) \cup {session}
         /\ \A u \in Streams \ {t} : SessionsOf(u)' = SessionsOf(u)
         /\ DOMAIN network'.of = DOMAIN network.of \cup {session}
<1> DEFINE of == network.of
           sent == network.sent
           wire == network.wire
           k == Len(of)
<1>1. /\ network'.of = Append(of, t)
      /\ network'.sent = Append(sent, network.traded)
      /\ network'.wire = Append(wire, NoFrame)
      /\ network'.open = network.open \cup {session}
      /\ network'.keyed = network.keyed /\ network'.traded = network.traded
      /\ network'.topics = network.topics
  BY DEF NetworkTyped
<1>2. NoFrame \in Frame /\ network.traded \in Nat
  BY SocketAssumption DEF NoFrame, Frame, Kinds, NetworkTyped
<1>3. /\ of \in Seq(Streams) /\ sent \in Seq(Nat) /\ wire \in Seq(Frame)
      /\ Len(sent) = k /\ Len(wire) = k /\ k \in Nat /\ DOMAIN of = 1 .. k
      /\ session = k + 1
  BY LenProperties DEF NetworkTyped
<1> HIDE DEF of, sent, wire
<1>4. /\ network'.of \in Seq(Streams) /\ Len(network'.of) = k + 1 /\ DOMAIN network'.of = 1 .. k + 1
      /\ network'.of[session] = t
      /\ \A s \in 1 .. k : network'.of[s] = of[s]
  <2> DEFINE p == network'.of
  <2>1. p = Append(of, t)
    BY <1>1
  <2> HIDE DEF p
  <2>2. /\ p \in Seq(Streams) /\ Len(p) = k + 1 /\ DOMAIN p = 1 .. k + 1
        /\ p[session] = t /\ \A s \in 1 .. k : p[s] = of[s]
    BY <2>1, <1>3, OneLonger
  <2> QED
    BY <2>2 DEF p
<1>5. /\ network'.sent \in Seq(Nat) /\ Len(network'.sent) = k + 1
      /\ network'.sent[session] = network.traded
      /\ \A s \in 1 .. k : network'.sent[s] = sent[s]
  <2> DEFINE p == network'.sent
             x == network.traded
  <2>1. p = Append(sent, x) /\ x \in Nat
    BY <1>1, <1>2
  <2> HIDE DEF p, x
  <2>2. /\ p \in Seq(Nat) /\ Len(p) = k + 1
        /\ p[session] = x /\ \A s \in 1 .. k : p[s] = sent[s]
    BY <2>1, <1>3, OneLonger
  <2> QED
    BY <2>2 DEF p, x
<1>b. /\ network'.wire \in Seq(Frame) /\ Len(network'.wire) = k + 1
      /\ network'.wire[session] = NoFrame
      /\ \A s \in 1 .. k : network'.wire[s] = wire[s]
  <2> DEFINE p == network'.wire
  <2>1. p = Append(wire, NoFrame)
    BY <1>1
  <2> HIDE DEF p
  <2>2. /\ p \in Seq(Frame) /\ Len(p) = k + 1
        /\ p[session] = NoFrame /\ \A s \in 1 .. k : p[s] = wire[s]
    BY <2>1, <1>2, <1>3, OneLonger
  <2> QED
    BY <2>2 DEF p
<1> HIDE DEF k
<1>6. /\ session \in Nat \ {NoSession} /\ session \notin 1 .. k
      /\ 1 .. k + 1 = 1 .. k \cup {session} /\ session # NoSession
  BY <1>3 DEF NoSession
<1>7. \A u \in Streams : SessionsOf(u) = {s \in 1 .. k : of[s] = u}
  BY <1>3 DEF SessionsOf, of
<1>8. \A u \in Streams : SessionsOf(u)' = {s \in 1 .. k + 1 : network'.of[s] = u}
  BY <1>4 DEF SessionsOf
<1>9. /\ SessionsOf(t)' = SessionsOf(t) \cup {session}
      /\ \A u \in Streams \ {t} : SessionsOf(u)' = SessionsOf(u)
  <2>1. \A s : s \in 1 .. k + 1 <=> s \in 1 .. k \/ s = session
    BY <1>6
  <2>2. SessionsOf(t)' = SessionsOf(t) \cup {session}
    BY <2>1, <1>4, <1>7, <1>8
  <2>3. ASSUME NEW u \in Streams \ {t}
        PROVE  SessionsOf(u)' = SessionsOf(u)
    <3>1. ASSUME NEW s
          PROVE  s \in 1 .. k + 1 /\ network'.of[s] = u <=> s \in 1 .. k /\ of[s] = u
      BY <2>1, <1>4, <1>6
    <3>2. u \in Streams
      OBVIOUS
    <3> QED
      BY <3>1, <3>2, <1>7, <1>8
  <2> QED
    BY <2>2, <2>3
<1>10. NetworkTyped'
  <2>1. network' = [network EXCEPT !.of = network'.of, !.open = network'.open,
                                   !.sent = network'.sent, !.wire = network'.wire]
    BY DEF NetworkTyped
  <2>2. network.open \cup {session} \in SUBSET Nat
    BY <1>6 DEF NetworkTyped
  <2>3. network' \in [of : Seq(Streams), open : SUBSET Nat, topics : SUBSET (Nat \X Awaits),
                    keyed : SUBSET Nat, sent : Seq(Nat), traded : 0 .. MaxTrades,
                    wire : Seq(Frame)]
    BY <2>1, <2>2, <1>1, <1>4, <1>5, <1>b DEF NetworkTyped
  <2> QED
    BY <2>3, <1>4, <1>5, <1>b DEF NetworkTyped
<1> QED
  BY <1>1, <1>3, <1>4, <1>5, <1>b, <1>6, <1>9, <1>10 DEF of, sent, wire

LEMMA FrameArrived ==
  ASSUME NetworkTyped, NEW s \in DOMAIN network.of, NEW frame \in Frame,
         network' = [network EXCEPT
           !.wire[s] = frame,
           !.keyed = IF frame.kind = "key" THEN @ \cup {s} ELSE @,
           !.sent[s] = IF frame.kind = "trade" THEN frame.trade ELSE @,
           !.traded = IF frame.trade > @ THEN frame.trade ELSE @]
  PROVE  /\ NetworkTyped'
         /\ network'.of = network.of /\ network'.open = network.open
         /\ network'.keyed = IF frame.kind = "key" THEN network.keyed \cup {s} ELSE network.keyed
         /\ network'.wire = [network.wire EXCEPT ![s] = frame]
         /\ network'.sent = [network.sent EXCEPT
                ![s] = IF frame.kind = "trade" THEN frame.trade ELSE @]
         /\ network'.traded = IF frame.trade > network.traded THEN frame.trade ELSE network.traded
<1>1. /\ network'.of = network.of /\ network'.open = network.open
      /\ network'.topics = network.topics
      /\ network'.keyed = IF frame.kind = "key" THEN network.keyed \cup {s} ELSE network.keyed
      /\ network'.wire = [network.wire EXCEPT ![s] = frame]
      /\ network'.sent = [network.sent EXCEPT
                ![s] = IF frame.kind = "trade" THEN frame.trade ELSE @]
      /\ network'.traded = IF frame.trade > network.traded THEN frame.trade ELSE network.traded
  BY DEF NetworkTyped
<1> DEFINE k == Len(network.of)
           w == network'.wire
           n == network'.sent
<1>2. frame.trade \in 0 .. MaxTrades /\ frame.trade \in Nat /\ network.traded \in 0 .. MaxTrades
  BY SocketAssumption DEF Frame, NetworkTyped
<1>3. k \in Nat /\ w \in [1 .. k -> Frame] /\ n \in [1 .. k -> Nat] /\ s \in 1 .. k
  BY <1>1, <1>2, SessionsAreNumbered
<1>4. w \in Seq(Frame) /\ Len(w) = k /\ n \in Seq(Nat) /\ Len(n) = k
  <2> HIDE DEF k, w, n
  <2> QED
    BY <1>3, SequenceOf
<1>5. /\ network'.keyed \in SUBSET Nat
      /\ network'.traded \in 0 .. MaxTrades
  BY <1>1, <1>2, <1>3 DEF NetworkTyped
<1> HIDE DEF w, n
<1>6. network' = [network EXCEPT !.wire = w, !.keyed = network'.keyed, !.sent = n,
                                 !.traded = network'.traded]
  BY DEF NetworkTyped, w, n
<1>7. network' \in [of : Seq(Streams), open : SUBSET Nat, topics : SUBSET (Nat \X Awaits),
                    keyed : SUBSET Nat, sent : Seq(Nat), traded : 0 .. MaxTrades,
                    wire : Seq(Frame)]
  BY <1>4, <1>5, <1>6 DEF NetworkTyped
<1> QED
  BY <1>1, <1>4, <1>7 DEF NetworkTyped, w, n

LEMMA HungUp ==
  ASSUME NetworkTyped, NEW s \in DOMAIN network.of,
         network' = [network EXCEPT !.open = @ \ {s}, !.keyed = @ \ {s}, !.sent[s] = 0,
                      !.topics = {topic \in @ : topic[1] # s}]
  PROVE  /\ NetworkTyped'
         /\ network'.of = network.of /\ network'.wire = network.wire
         /\ network'.open = network.open \ {s} /\ network'.keyed = network.keyed \ {s}
         /\ network'.sent = [network.sent EXCEPT ![s] = 0]
         /\ network'.traded = network.traded
<1>1. /\ network'.of = network.of /\ network'.wire = network.wire
      /\ network'.open = network.open \ {s} /\ network'.keyed = network.keyed \ {s}
      /\ network'.topics = {topic \in network.topics : topic[1] # s}
      /\ network'.sent = [network.sent EXCEPT ![s] = 0]
      /\ network'.traded = network.traded
  BY DEF NetworkTyped
<1> DEFINE k == Len(network.of)
           n == network'.sent
<1>2. k \in Nat /\ n \in [1 .. k -> Nat]
  BY <1>1, SessionsAreNumbered
<1>3. n \in Seq(Nat) /\ Len(n) = k
  <2> HIDE DEF k, n
  <2> QED
    BY <1>2, SequenceOf
<1>4. network'.open \in SUBSET Nat /\ network'.keyed \in SUBSET Nat
      /\ network'.topics \in SUBSET (Nat \X Awaits)
  BY <1>1 DEF NetworkTyped
<1> HIDE DEF n
<1>5. network' = [network EXCEPT !.open = network'.open, !.keyed = network'.keyed, !.sent = n,
                                 !.topics = network'.topics]
  BY DEF NetworkTyped, n
<1>6. network' \in [of : Seq(Streams), open : SUBSET Nat, topics : SUBSET (Nat \X Awaits),
                    keyed : SUBSET Nat, sent : Seq(Nat), traded : 0 .. MaxTrades,
                    wire : Seq(Frame)]
  BY <1>3, <1>4, <1>5 DEF NetworkTyped
<1> QED
  BY <1>1, <1>3, <1>6 DEF NetworkTyped, n

-----------------------------------------------------------------------------
\* The task shows the price of a trade when it goes on.
Shows(r) == reading[r] \in SessionsOf("market") /\ Priced(network.wire[reading[r]])
TradeOf(r) == network.wire[reading[r]].trade

Latest(s, t) == \A other \in SessionsOf(t) : other <= s

WokenHaveFrames ==
    \A r : In(ready, r) => reading[r] # NoSession /\ network.wire[reading[r]] # NoFrame

OneReaderEach ==
    \A r, q \in Readers : reading[r] = reading[q] /\ reading[r] # NoSession => r = q

SessionsInUse ==
    /\ \A t \in Streams : socket[t] \in SessionsOf(t) \cup {NoSession}
    /\ \A r \in Readers : reading[r] \in {NoSession} \cup DOMAIN network.of
    /\ crypto \in SessionsOf("execution") \cup {NoSession}
    /\ network.open \subseteq DOMAIN network.of
    /\ network.keyed \subseteq DOMAIN network.of

\* The transports and the tasks of the execution stream know no session but the
\* last one made, and none while one is being made.
LatestInUse ==
    /\ \A t \in Streams : socket[t] # NoSession => Latest(socket[t], t)
    /\ \A r \in Readers : reading[r] \in SessionsOf("execution") => Latest(reading[r], "execution")
    /\ awaited["execution"] = "connection" => socket["execution"] = NoSession /\ Drained

\* Once the key of the last session is taken no other is held beside a notice
\* of it.
Unlocked(s) ==
    \/ network.wire[s].kind = "notice"
    \/ s \in network.keyed /\ network.wire[s].kind # "key"
KeysFit ==
    \A s \in SessionsOf("execution") :
        Latest(s, "execution") /\ Unlocked(s) => crypto \in {s, NoSession}

TradesBounded ==
    /\ shown \in 0 .. MaxTrades /\ shown <= network.traded
    /\ \A s \in DOMAIN network.of : network.wire[s].trade <= network.traded

\* Of market sessions opened one after the other only the last brings trades,
\* and brings later ones than any before.
FeedIsLatest ==
    \A s \in SessionsOf("market") \cap network.open :
        /\ Latest(s, "market")
        /\ shown <= network.sent[s]
        /\ \A other \in SessionsOf("market") : network.wire[other].trade <= network.sent[s]

\* The event loop resumes the tasks in the order of their trades ...
WokenInOrder ==
    /\ \A r : In(ready, r) /\ Shows(r) => shown <= TradeOf(r)
    /\ \A r, q : Precedes(ready, r, q) /\ Shows(r) /\ Shows(q) => TradeOf(r) <= TradeOf(q)

\* ... and one that comes to read finds the latest of them.
UnreadIsNewest ==
    socket["market"] # NoSession /\ Priced(network.wire[socket["market"]]) =>
        /\ shown <= network.wire[socket["market"]].trade
        /\ \A r : In(ready, r) /\ Shows(r) => TradeOf(r) <= network.wire[socket["market"]].trade

PricesInv == ~past.doubled => FeedIsLatest /\ WokenInOrder /\ UnreadIsNewest

SocketInv ==
    /\ SocketTyped /\ WokenHaveFrames /\ OneReaderEach /\ SessionsInUse /\ LatestInUse
    /\ KeysFit /\ NoticesReadable /\ ConnectionHeld
    /\ TradesBounded /\ PricesInv

LEMMA SocketInvGivesTypes ==
  ASSUME SocketInv
  PROVE  SocketTypeOK
<1>1. ASSUME NEW n \in DOMAIN ready
      PROVE  reading[ready[n]] # NoSession /\ network.wire[reading[ready[n]]] # NoFrame
  <2>1. In(ready, ready[n])
    BY DEF In
  <2> QED
    BY <2>1 DEF SocketInv, WokenHaveFrames
<1> QED
  BY <1>1 DEF SocketInv, SessionsInUse, TradesBounded, SocketTypeOK

LEMMA InitSocket == SocketInit => SocketInv
<1> SUFFICES ASSUME SocketInit PROVE SocketInv
  OBVIOUS
<1>1. /\ network = [of |-> <<>>, open |-> {}, topics |-> {}, keyed |-> {},
                  sent |-> <<>>, traded |-> 0, wire |-> <<>>]
      /\ past = [told |-> {}, doubled |-> FALSE, handed |-> Nobody]
      /\ socket = [t \in Streams |-> NoSession] /\ awaited = [t \in Streams |-> "nothing"]
      /\ reading = [r \in Readers |-> NoSession] /\ ready = <<>>
      /\ subscription = NoSession /\ crypto = NoSession /\ shown = 0
  BY DEF SocketInit
<1>2. /\ DOMAIN ready = {} /\ (\A r : ~In(ready, r)) /\ (\A r, q : ~Precedes(ready, r, q))
      /\ Once(ready) /\ ready \in Seq(Readers)
  BY <1>1 DEF In, Precedes, Once
<1>3. network.of = <<>> /\ DOMAIN network.of = {} /\ \A t \in Streams : SessionsOf(t) = {}
  BY <1>1 DEF SessionsOf
<1>4. NetworkTyped
  BY <1>1, SocketAssumption DEF NetworkTyped
<1>5. SocketTyped
  <2>1. past \in [told : SUBSET Nat, doubled : BOOLEAN, handed : [session : Nat, key : Nat]]
    BY <1>1 DEF Nobody, NoSession
  <2> QED
    BY <2>1, <1>1, <1>2, <1>4 DEF SocketTyped, Awaits, NoSession
<1>6. WokenHaveFrames /\ OneReaderEach /\ SessionsInUse
  BY <1>1, <1>2, <1>3 DEF WokenHaveFrames, OneReaderEach, SessionsInUse, Streams
<1>7. LatestInUse /\ KeysFit /\ NoticesReadable /\ ConnectionHeld
  BY <1>1, <1>3 DEF LatestInUse, KeysFit, NoticesReadable, ConnectionHeld, Streams, Nobody
<1>8. TradesBounded /\ PricesInv
  BY <1>1, <1>2, <1>3, SocketAssumption
  DEF TradesBounded, PricesInv, FeedIsLatest, WokenInOrder, UnreadIsNewest, Streams
<1> QED
  BY <1>5, <1>6, <1>7, <1>8 DEF SocketInv

\* What a task that goes on does to itself and to the queue of those woken.
ReaderMoved(r, session) ==
    /\ reading' \in [Readers -> Nat]
    /\ reading'[r] \in {session, NoSession}
    /\ \A q \in Readers \ {r} : reading'[q] = reading[q]
    /\ OneReaderEach'
    /\ ready' \in Seq(Readers) /\ Once(ready')
    /\ \A q : In(ready', q) =>
          \/ In(ready, q) /\ q # r
          \/ q = r /\ reading'[r] # NoSession /\ network.wire[reading'[r]] # NoFrame
    /\ \A q, p : Precedes(ready', q, p) =>
          \/ Precedes(ready, q, p) /\ q # r /\ p # r
          \/ In(ready, q) /\ q # r /\ p = r

LEMMA OthersRemain ==
  ASSUME SocketTyped, NEW r \in Readers
  PROVE  /\ Without(r) \in Seq(Readers) /\ Once(Without(r)) /\ ~In(Without(r), r)
         /\ \A q : In(Without(r), q) => In(ready, q) /\ q # r
         /\ \A q, p : Precedes(Without(r), q, p) => Precedes(ready, q, p) /\ q # r /\ p # r
<1> DEFINE others == Without(r)
<1>0. ready \in Seq(Readers) /\ Once(ready)
  BY DEF SocketTyped
<1>1. CASE Woken(r)
  <2> DEFINE at == CHOOSE n \in DOMAIN ready : ready[n] = r
  <2>1. at \in DOMAIN ready /\ ready[at] = r
    BY <1>1 DEF Woken
  <2>2. others = RemoveAt(ready, at)
    BY <1>1 DEF Without
  <2> HIDE DEF others, at
  <2>3. /\ others \in Seq(Readers) /\ Once(others)
        /\ \A q : In(others, q) => In(ready, q) /\ q # r
        /\ \A q, p : Precedes(others, q, p) => Precedes(ready, q, p)
    BY <2>1, <2>2, <1>0, RemovalKeepsOrder
  <2>4. \A q, p : Precedes(others, q, p) => In(others, q) /\ In(others, p)
    BY DEF Precedes, In
  <2> QED
    BY <2>3, <2>4 DEF others
<1>2. CASE ~Woken(r)
  <2>1. others = ready /\ ~In(ready, r)
    BY <1>2 DEF Without, Woken, In
  <2>2. \A q, p : Precedes(ready, q, p) => In(ready, q) /\ In(ready, p)
    BY DEF Precedes, In
  <2> QED
    BY <1>0, <2>1, <2>2
<1> QED
  BY <1>1, <1>2

LEMMA ReadsMoves ==
  ASSUME SocketTyped, OneReaderEach, NEW r \in Readers, NEW session \in Nat, Reads(r, session)
  PROVE  ReaderMoved(r, session)
<1> DEFINE taken == \E other \in Readers \ {r} : reading[other] = session
           at == IF taken THEN NoSession ELSE session
           others == Without(r)
<1>1. /\ reading' = [reading EXCEPT ![r] = at]
      /\ ready' = IF at # NoSession /\ network.wire[at] # NoFrame
                  THEN Append(others, r) ELSE others
  BY DEF Reads
<1>2. /\ at \in {session, NoSession} /\ at \in Nat
      /\ at # NoSession => \A q \in Readers \ {r} : reading[q] # at
  BY DEF NoSession
<1>3. /\ others \in Seq(Readers) /\ Once(others) /\ ~In(others, r)
      /\ \A q : In(others, q) => In(ready, q) /\ q # r
      /\ \A q, p : Precedes(others, q, p) => Precedes(ready, q, p) /\ q # r /\ p # r
  BY OthersRemain
<1> HIDE DEF at, others
<1>4. /\ reading' \in [Readers -> Nat] /\ reading'[r] = at
      /\ \A q \in Readers \ {r} : reading'[q] = reading[q]
  BY <1>1, <1>2 DEF SocketTyped
<1>5. OneReaderEach'
  BY <1>2, <1>4 DEF OneReaderEach
<1>6. CASE at # NoSession /\ network.wire[at] # NoFrame
  <2> DEFINE woken == ready'
  <2>1. woken = Append(others, r)
    BY <1>1, <1>6
  <2> HIDE DEF woken
  <2>2. /\ woken \in Seq(Readers) /\ Once(woken)
        /\ \A q : In(woken, q) => In(others, q) \/ q = r
        /\ \A q, p : Precedes(woken, q, p) => Precedes(others, q, p) \/ (In(others, q) /\ p = r)
    <3>1. others \in Seq(Readers)
      BY <1>3
    <3>2. Once(others)
      BY <1>3
    <3>3. ~In(others, r)
      BY <1>3
    <3> QED
      BY <3>1, <3>2, <3>3, <2>1, AppendAddsLast
  <2>3. /\ ready' \in Seq(Readers) /\ Once(ready')
        /\ \A q : In(ready', q) => In(others, q) \/ q = r
        /\ \A q, p : Precedes(ready', q, p) => Precedes(others, q, p) \/ (In(others, q) /\ p = r)
    BY <2>2 DEF woken
  <2> QED
    BY <2>3, <1>2, <1>3, <1>4, <1>5, <1>6 DEF ReaderMoved
<1>7. CASE ~(at # NoSession /\ network.wire[at] # NoFrame)
  BY <1>1, <1>2, <1>3, <1>4, <1>5, <1>7 DEF ReaderMoved
<1> QED
  BY <1>6, <1>7

-----------------------------------------------------------------------------
\* Commands of the two streams: nothing is read and nothing comes.
LEMMA CommandsKeep ==
  ASSUME SocketInv, SocketTyped', SameSessions, network'.wire = network.wire,
         UNCHANGED <<reading, ready, shown>>,
         \A t \in Streams : socket'[t] \in {socket[t], NoSession},
         crypto' \in {crypto, NoSession},
         past'.handed = past.handed, past'.doubled = past.doubled,
         awaited'["execution"] = "connection" => socket'["execution"] = NoSession /\ Drained,
         ConnectionHeld'
  PROVE  SocketInv'
<1>1. \A t \in Streams : SessionsOf(t)' = SessionsOf(t)
  BY DEF SameSessions, SessionsOf
<1>2. WokenHaveFrames' /\ OneReaderEach'
  BY DEF SocketInv, WokenHaveFrames, OneReaderEach
<1>3. SessionsInUse'
  BY <1>1 DEF SocketInv, SessionsInUse, SameSessions, Streams
<1>4. LatestInUse'
  BY <1>1 DEF SocketInv, LatestInUse, Latest, Drained, Streams
<1>5. KeysFit'
  BY <1>1 DEF SocketInv, KeysFit, Latest, Unlocked, SameSessions, Streams
<1>6. NoticesReadable' /\ TradesBounded'
  BY DEF SocketInv, NoticesReadable, TradesBounded, SameSessions
<1>7. \A r : Shows(r)' = Shows(r) /\ TradeOf(r)' = TradeOf(r)
  BY <1>1 DEF Shows, TradeOf, Streams
<1>8. ASSUME ~past'.doubled
      PROVE  FeedIsLatest' /\ WokenInOrder' /\ UnreadIsNewest'
  <2>1. FeedIsLatest /\ WokenInOrder /\ UnreadIsNewest
    BY <1>8 DEF SocketInv, PricesInv
  <2>2. FeedIsLatest'
    BY <2>1, <1>1 DEF FeedIsLatest, Latest, SameSessions, Streams
  <2>3. WokenInOrder'
    BY <2>1, <1>7 DEF WokenInOrder
  <2>4. UnreadIsNewest'
    <3>1. socket'["market"] \in {socket["market"], NoSession}
      BY DEF Streams
    <3> QED
      BY <3>1, <2>1, <1>7 DEF UnreadIsNewest
  <2> QED
    BY <2>2, <2>3, <2>4
<1> QED
  BY <1>2, <1>3, <1>4, <1>5, <1>6, <1>8 DEF SocketInv, PricesInv

LEMMA RequestTyped ==
  ASSUME NetworkTyped, NEW t \in Streams, socket[t] \in Nat, awaited[t] \in Awaits,
         network' = network \/ network' = [network EXCEPT !.topics = Requested(t)]
  PROVE  NetworkTyped' /\ SameSessions /\ network'.wire = network.wire
<1>1. Requested(t) \in SUBSET (Nat \X Awaits)
  BY DEF Requested, NetworkTyped
<1> HIDE DEF Requested
<1>2. CASE network' = network
  BY <1>2 DEF SameSessions, NetworkTyped
<1>3. CASE network' = [network EXCEPT !.topics = Requested(t)]
  BY <1>1, <1>3 DEF SameSessions, NetworkTyped
<1> QED
  BY <1>2, <1>3

LEMMA CommandStep ==
  ASSUME SocketInv, NEW t \in Streams, NEW credentials,
         Connect(t) \/ Subscribe(credentials) \/ Sent(t, credentials) \/ StreamFails(t) \/ Close(t)
  PROVE  SocketInv' /\ UNCHANGED shown
<1>1. /\ SocketTyped /\ "execution" \in Streams /\ "market" \in Streams
      /\ "execution" # "market" /\ ConnectionHeld
      /\ awaited["execution"] = "connection" => socket["execution"] = NoSession /\ Drained
  BY DEF SocketInv, Streams, LatestInUse
<1>2. /\ \A u \in Streams : socket[u] \in Nat /\ awaited[u] \in Awaits
      /\ awaited \in [Streams -> Awaits] /\ socket \in [Streams -> Nat]
      /\ NetworkTyped
  BY DEF SocketInv, SocketTyped
<1>3. /\ "nothing" \in Awaits /\ "connection" \in Awaits /\ "notices" \in Awaits
      /\ "quotes" \in Awaits /\ NoSession \in Nat
  BY DEF Awaits, Topics, NoSession
<1>4. CASE Connect(t)
  <2>1. UNCHANGED <<socket, subscription, crypto, reading, ready, shown, network, past>>
        /\ awaited' = [awaited EXCEPT ![t] = "connection"]
    BY <1>4 DEF Connect
  <2>2. SocketTyped' /\ SameSessions /\ network'.wire = network.wire
    BY <2>1, <1>1, <1>2, <1>3 DEF SocketTyped, SameSessions, NetworkTyped
  <2>3. awaited'["execution"] = "connection" => socket'["execution"] = NoSession /\ Drained
    BY <2>1, <1>1, <1>2, <1>4 DEF Connect
  <2>4. ConnectionHeld'
    BY <2>1, <1>1 DEF ConnectionHeld, SessionsOf
  <2> QED
    BY <2>1, <2>2, <2>3, <2>4, CommandsKeep
<1>5. CASE Subscribe(credentials)
  <2>1. UNCHANGED <<socket, subscription, crypto, reading, ready, shown, network, past>>
        /\ awaited' = [awaited EXCEPT !["execution"] = "notices"]
    BY <1>5 DEF Subscribe
  <2>2. SocketTyped' /\ SameSessions /\ network'.wire = network.wire
    BY <2>1, <1>1, <1>2, <1>3 DEF SocketTyped, SameSessions, NetworkTyped
  <2>3. awaited'["execution"] # "connection"
    BY <2>1, <1>1, <1>2
  <2>4. ConnectionHeld'
    BY <2>1, <1>1 DEF ConnectionHeld, SessionsOf
  <2> QED
    BY <2>1, <2>2, <2>3, <2>4, CommandsKeep
<1>6. CASE Sent(t, credentials)
  <2>1. UNCHANGED <<socket, crypto, reading, ready, shown, past>>
        /\ network' = [network EXCEPT !.topics = Requested(t)]
        /\ subscription' = IF t = "execution" THEN socket[t] ELSE subscription
    BY <1>6 DEF Sent
  <2>2. PICK next \in {"quotes", "nothing"} : awaited' = [awaited EXCEPT ![t] = next]
    BY <1>6 DEF Sent
  <2>3. NetworkTyped' /\ SameSessions /\ network'.wire = network.wire
    BY <2>1, <1>2, RequestTyped
  <2>4. SocketTyped'
    BY <2>1, <2>2, <2>3, <1>1, <1>2, <1>3 DEF SocketTyped
  <2>5. awaited'["execution"] = "connection" => socket'["execution"] = NoSession /\ Drained
    BY <2>1, <2>2, <1>1, <1>2
  <2>6. ConnectionHeld'
    BY <2>1, <2>3, <1>1 DEF ConnectionHeld, SessionsOf, SameSessions
  <2> QED
    BY <2>1, <2>3, <2>4, <2>5, <2>6, CommandsKeep
<1>7. CASE StreamFails(t)
  <2>1. UNCHANGED <<socket, subscription, crypto, reading, ready, shown, past>>
        /\ awaited' = [awaited EXCEPT ![t] = "nothing"]
        /\ (network' = network \/ network' = [network EXCEPT !.topics = Requested(t)])
    BY <1>7 DEF StreamFails
  <2>2. NetworkTyped' /\ SameSessions /\ network'.wire = network.wire
    BY <2>1, <1>2, RequestTyped
  <2>3. SocketTyped'
    BY <2>1, <2>2, <1>1, <1>2, <1>3 DEF SocketTyped
  <2>4. awaited'["execution"] = "connection" => socket'["execution"] = NoSession /\ Drained
    BY <2>1, <1>1, <1>2
  <2>5. ConnectionHeld'
    BY <2>1, <2>2, <1>1 DEF ConnectionHeld, SessionsOf, SameSessions
  <2> QED
    BY <2>1, <2>2, <2>3, <2>4, <2>5, CommandsKeep
<1>8. CASE Close(t)
  <2>1. /\ UNCHANGED <<awaited, reading, ready, shown, network>>
        /\ socket' = [socket EXCEPT ![t] = NoSession]
        /\ t = "execution" => subscription' = NoSession /\ crypto' = NoSession
                              /\ past' = [past EXCEPT !.told = @ \cup {socket[t]}]
        /\ t # "execution" => UNCHANGED <<subscription, crypto, past>>
    BY <1>8 DEF Close
  <2>2. /\ past' \in [told : SUBSET Nat, doubled : BOOLEAN, handed : [session : Nat, key : Nat]]
        /\ past'.handed = past.handed /\ past'.doubled = past.doubled
        /\ past'.told = IF t = "execution" THEN past.told \cup {socket[t]} ELSE past.told
    <3>1. past \in [told : SUBSET Nat, doubled : BOOLEAN, handed : [session : Nat, key : Nat]]
          /\ {socket[t]} \in SUBSET Nat
      BY <1>1, <1>2 DEF SocketTyped
    <3>2. CASE t = "execution"
      <4>1. past' = [past EXCEPT !.told = past.told \cup {socket[t]}]
        BY <3>2, <2>1
      <4> QED
        BY <3>1, <3>2, <4>1
    <3>3. CASE t # "execution"
      BY <3>1, <3>3, <2>1
    <3> QED
      BY <3>2, <3>3
  <2>3. SocketTyped' /\ SameSessions /\ network'.wire = network.wire
    BY <2>1, <2>2, <1>1, <1>2, <1>3 DEF SocketTyped, SameSessions, NetworkTyped
  <2>4. \A u \in Streams : socket'[u] = IF u = t THEN NoSession ELSE socket[u]
    BY <2>1, <1>2
  <2>5. awaited'["execution"] = "connection" => socket'["execution"] = NoSession /\ Drained
    BY <2>1, <2>4, <1>1
  <2>6. ConnectionHeld'
    <3>1. \A u \in Streams : SessionsOf(u)' = SessionsOf(u)
      BY <2>1 DEF SessionsOf
    <3>2. CASE t = "execution"
      BY <3>1, <3>2, <2>1, <2>2, <2>4, <1>1 DEF ConnectionHeld
    <3>3. CASE t # "execution"
      BY <3>1, <3>3, <2>1, <2>2, <2>4, <1>1 DEF ConnectionHeld
    <3> QED
      BY <3>2, <3>3
  <2> QED
    BY <2>1, <2>2, <2>3, <2>4, <2>5, <2>6, CommandsKeep
<1> QED
  BY <1>4, <1>5, <1>6, <1>7, <1>8

LEMMA ConnectedStep ==
  ASSUME SocketInv, NEW t \in Streams, Connected(t)
  PROVE  SocketInv' /\ UNCHANGED shown
<1> DEFINE session == Len(network.of) + 1
<1>1. /\ awaited[t] = "connection"
      /\ socket' = [socket EXCEPT ![t] = session]
      /\ awaited' = [awaited EXCEPT ![t] = IF t = "market" THEN "trades" ELSE "nothing"]
      /\ network' = [network EXCEPT !.of = Append(@, t), !.open = @ \cup {session},
                                  !.sent = Append(@, network.traded),
                                  !.wire = Append(@, NoFrame)]
      /\ past' = [past EXCEPT
           !.doubled = @ \/ (t = "market" /\ SessionsOf(t) \cap network.open # {})]
      /\ UNCHANGED <<subscription, crypto, reading, ready, shown>>
  BY DEF Connected
<1>2. SocketTyped /\ NetworkTyped
  BY DEF SocketInv, SocketTyped
<1>3. /\ NetworkTyped'
      /\ network'.open = network.open \cup {session}
      /\ network'.keyed = network.keyed /\ network'.traded = network.traded
      /\ session \in Nat \ {NoSession} /\ session \notin DOMAIN network.of
      /\ network'.sent[session] = network.traded /\ network'.wire[session] = NoFrame
      /\ \A s \in DOMAIN network.of : /\ network'.sent[s] = network.sent[s]
                                      /\ network'.wire[s] = network.wire[s]
      /\ SessionsOf(t)' = SessionsOf(t) \cup {session}
      /\ \A u \in Streams \ {t} : SessionsOf(u)' = SessionsOf(u)
      /\ DOMAIN network'.of = DOMAIN network.of \cup {session}
  BY <1>1, <1>2, SessionMade
<1>4. /\ \A s \in DOMAIN network.of : s \in Nat /\ s < session /\ s # NoSession
      /\ \A u \in Streams : SessionsOf(u) \subseteq DOMAIN network.of
  BY <1>2, SessionsAreNumbered DEF NoSession
<1> HIDE DEF session
<1>5. /\ past' \in [told : SUBSET Nat, doubled : BOOLEAN, handed : [session : Nat, key : Nat]]
      /\ past'.told = past.told /\ past'.handed = past.handed
      /\ past'.doubled = (past.doubled \/ (t = "market" /\ SessionsOf(t) \cap network.open # {}))
  <2>1. past \in [told : SUBSET Nat, doubled : BOOLEAN, handed : [session : Nat, key : Nat]]
    BY <1>2 DEF SocketTyped
  <2> DEFINE d == past.doubled \/ (t = "market" /\ SessionsOf(t) \cap network.open # {})
  <2>2. d \in BOOLEAN /\ past' = [past EXCEPT !.doubled = d]
    BY <1>1
  <2> HIDE DEF d
  <2>3. /\ past' \in [told : SUBSET Nat, doubled : BOOLEAN, handed : [session : Nat, key : Nat]]
        /\ past'.told = past.told /\ past'.handed = past.handed /\ past'.doubled = d
    BY <2>1, <2>2
  <2> QED
    BY <2>3 DEF d
<1>6. SocketTyped'
  <2>1. socket' \in [Streams -> Nat]
    BY <1>1, <1>2, <1>3 DEF SocketTyped
  <2>2. awaited' \in [Streams -> Awaits]
    <3>1. "trades" \in Awaits /\ "nothing" \in Awaits
      BY DEF Awaits, Topics
    <3> QED
      BY <3>1, <1>1, <1>2 DEF SocketTyped
  <2> QED
    BY <2>1, <2>2, <1>1, <1>2, <1>3, <1>5 DEF SocketTyped
<1>7. /\ \A u \in Streams : socket'[u] = IF u = t THEN session ELSE socket[u]
      /\ \A u \in Streams : u # t => awaited'[u] = awaited[u]
      /\ awaited'[t] # "connection"
  BY <1>1, <1>2 DEF SocketTyped
<1>8. /\ \A r \in Readers : reading'[r] = reading[r] /\ reading[r] \in {NoSession} \cup DOMAIN network.of
      /\ \A r : In(ready, r) => r \in Readers /\ reading[r] \in DOMAIN network.of
  <2>1. \A r : In(ready, r) => r \in Readers
    BY <1>2, LenProperties DEF SocketTyped, In
  <2> QED
    BY <2>1, <1>1 DEF SocketInv, SessionsInUse, WokenHaveFrames
<1>9. WokenHaveFrames'
  BY <1>1, <1>3, <1>8 DEF SocketInv, WokenHaveFrames
<1>10. OneReaderEach'
  BY <1>8 DEF SocketInv, OneReaderEach
<1>11. SessionsInUse'
  <2>1. \A u \in Streams : SessionsOf(u) \subseteq SessionsOf(u)'
    BY <1>3
  <2>2. "execution" \in Streams
    BY DEF Streams
  <2>3. /\ \A u \in Streams : socket'[u] \in SessionsOf(u)' \cup {NoSession}
    BY <2>1, <1>3, <1>7 DEF SocketInv, SessionsInUse
  <2>4. crypto' \in SessionsOf("execution")' \cup {NoSession}
    BY <2>1, <2>2, <1>1 DEF SocketInv, SessionsInUse
  <2>5. network'.open \subseteq DOMAIN network'.of /\ network'.keyed \subseteq DOMAIN network'.of
    BY <1>3 DEF SocketInv, SessionsInUse
  <2>6. \A r \in Readers : reading'[r] \in {NoSession} \cup DOMAIN network'.of
    BY <1>3, <1>8
  <2> QED
    BY <2>3, <2>4, <2>5, <2>6 DEF SessionsInUse
<1>12. \A other \in SessionsOf(t)' : other <= session
  BY <1>3, <1>4
<1>13. \A u \in Streams : u # t => SessionsOf(u)' = SessionsOf(u)
  BY <1>3
<1>14. t = "execution" => socket["execution"] = NoSession /\ Drained
  BY <1>1 DEF SocketInv, LatestInUse
<1>15. LatestInUse'
  <2>1. \A u \in Streams : socket'[u] # NoSession =>
                    \A other \in SessionsOf(u)' : other <= socket'[u]
    BY <1>7, <1>12, <1>13 DEF SocketInv, LatestInUse, Latest
  <2>2. ASSUME NEW r \in Readers, reading'[r] \in SessionsOf("execution")'
        PROVE  \A other \in SessionsOf("execution")' : other <= reading'[r]
    <3>1. CASE t = "execution"
      BY <3>1, <2>2, <1>3, <1>4, <1>8, <1>14 DEF Drained, Streams
    <3>2. CASE t # "execution"
      BY <3>2, <2>2, <1>3, <1>8, <1>13 DEF SocketInv, LatestInUse, Latest, Streams
    <3> QED
      BY <3>1, <3>2
  <2>3. ASSUME awaited'["execution"] = "connection"
        PROVE  socket'["execution"] = NoSession /\ Drained'
    <3>1. t # "execution" /\ awaited["execution"] = "connection"
      BY <2>3, <1>7 DEF Streams
    <3>2. socket["execution"] = NoSession /\ Drained
      BY <3>1 DEF SocketInv, LatestInUse
    <3> QED
      BY <3>1, <3>2, <1>3, <1>7, <1>8 DEF Drained, Streams
  <2> QED
    BY <2>1, <2>2, <2>3 DEF LatestInUse, Latest
<1>16. KeysFit'
  <2>1. ASSUME NEW s \in SessionsOf("execution")', Latest(s, "execution")', Unlocked(s)'
        PROVE  crypto' \in {s, NoSession}
    <3>1. CASE t = "execution"
      <4>1. s = session
        <5>1. session <= s /\ s \in SessionsOf("execution") \cup {session}
          BY <2>1, <3>1, <1>3 DEF Latest
        <5> QED
          BY <5>1, <3>1, <1>3, <1>4
      <4>2. network'.wire[s] = NoFrame /\ s \notin network'.keyed
        BY <4>1, <1>3 DEF SocketInv, SessionsInUse
      <4> QED
        BY <4>2, <2>1 DEF Unlocked, NoFrame
    <3>2. CASE t # "execution"
      <4>1. SessionsOf("execution")' = SessionsOf("execution")
        BY <3>2, <1>3 DEF Streams
      <4>2. Latest(s, "execution") /\ Unlocked(s)
        BY <4>1, <2>1, <1>3, <1>4 DEF Latest, Unlocked, Streams
      <4> QED
        BY <4>1, <4>2, <2>1, <1>1 DEF SocketInv, KeysFit
    <3> QED
      BY <3>1, <3>2
  <2> QED
    BY <2>1 DEF KeysFit
<1>17. NoticesReadable' /\ ConnectionHeld'
  <2>1. NoticesReadable'
    BY <1>5 DEF SocketInv, NoticesReadable
  <2>2. ConnectionHeld /\ "execution" \in Streams
    BY DEF SocketInv, Streams
  <2>3. CASE t = "execution"
    <3>1. \A s \in SessionsOf("execution") \cap network.open : s # NoSession
      BY <1>4, <2>2
    <3>2. \A s \in SessionsOf("execution")' \cap network'.open : s = session \/ s \in past'.told
      BY <3>1, <2>2, <2>3, <1>3, <1>5, <1>14 DEF ConnectionHeld
    <3> QED
      BY <3>2, <2>1, <2>2, <2>3, <1>1, <1>7, <1>14 DEF ConnectionHeld
  <2>4. CASE t # "execution"
    <3>1. SessionsOf("execution")' = SessionsOf("execution") /\ session \notin SessionsOf("execution")
      BY <2>2, <2>4, <1>3, <1>4
    <3> QED
      BY <3>1, <2>1, <2>2, <2>4, <1>1, <1>3, <1>5, <1>7 DEF ConnectionHeld
  <2> QED
    BY <2>1, <2>3, <2>4
<1>18. TradesBounded'
  <2>1. network.traded \in 0 .. MaxTrades /\ NoFrame.trade <= network.traded
    BY <1>2, SocketAssumption DEF NetworkTyped, NoFrame
  <2> QED
    BY <2>1, <1>1, <1>3 DEF SocketInv, TradesBounded
<1>19. \A r : In(ready, r) => (Shows(r)' <=> Shows(r)) /\ TradeOf(r)' = TradeOf(r)
  <2>1. \A s \in DOMAIN network.of : s \in SessionsOf("market")' <=> s \in SessionsOf("market")
    BY <1>3 DEF Streams
  <2> QED
    BY <2>1, <1>3, <1>8 DEF Shows, TradeOf
<1>20. ASSUME ~past'.doubled
       PROVE  FeedIsLatest' /\ WokenInOrder' /\ UnreadIsNewest'
  <2>1. FeedIsLatest /\ WokenInOrder /\ UnreadIsNewest
        /\ (t = "market" => SessionsOf(t) \cap network.open = {})
    BY <1>20, <1>5 DEF SocketInv, PricesInv
  <2>2. \A q, p : Precedes(ready, q, p) => In(ready, q) /\ In(ready, p)
    BY DEF Precedes, In
  <2>3. WokenInOrder'
    BY <2>1, <2>2, <1>1, <1>19 DEF WokenInOrder
  <2>4. FeedIsLatest'
    <3>1. CASE t = "market"
      <4>1. ASSUME NEW s \in SessionsOf("market")' \cap network'.open
            PROVE  s = session
        BY <3>1, <2>1, <1>3, <1>4
      <4>2. shown <= network.traded /\ \A s \in DOMAIN network.of : network.wire[s].trade <= network.traded
        BY DEF SocketInv, TradesBounded
      <4>3. NoFrame.trade <= network.traded
        BY <1>2, SocketAssumption DEF NetworkTyped, NoFrame
      <4>4. \A s \in SessionsOf("market")' : network'.wire[s].trade <= network.traded
        BY <4>2, <4>3, <3>1, <1>3, <1>4
      <4> QED
        <5>1. ASSUME NEW s \in SessionsOf("market")' \cap network'.open
              PROVE  /\ \A other \in SessionsOf("market")' : other <= s
                     /\ shown' <= network'.sent[s]
                     /\ \A other \in SessionsOf("market")' :
                            network'.wire[other].trade <= network'.sent[s]
          <6>1. s = session /\ network'.sent[s] = network.traded /\ shown' = shown
            BY <5>1, <4>1, <1>1, <1>3
          <6> QED
            BY <6>1, <4>2, <4>4, <3>1, <1>12
        <5> QED
          BY <5>1 DEF FeedIsLatest, Latest
    <3>2. CASE t # "market"
      <4>1. SessionsOf("market")' = SessionsOf("market") /\ "market" \in Streams
            /\ session \notin SessionsOf("market")
        BY <3>2, <1>3, <1>4 DEF Streams
      <4> QED
        <5>1. ASSUME NEW s \in SessionsOf("market")' \cap network'.open
              PROVE  /\ \A other \in SessionsOf("market")' : other <= s
                     /\ shown' <= network'.sent[s]
                     /\ \A other \in SessionsOf("market")' :
                            network'.wire[other].trade <= network'.sent[s]
          <6>1. s \in SessionsOf("market") \cap network.open /\ shown' = shown
                /\ network'.sent[s] = network.sent[s]
            BY <5>1, <4>1, <1>1, <1>3, <1>4
          <6>2. \A other \in SessionsOf("market")' :
                   other \in SessionsOf("market") /\ network'.wire[other] = network.wire[other]
            BY <4>1, <1>3, <1>4
          <6> QED
            BY <6>1, <6>2, <2>1 DEF FeedIsLatest, Latest
        <5> QED
          BY <5>1 DEF FeedIsLatest, Latest
    <3> QED
      BY <3>1, <3>2
  <2>5. UnreadIsNewest'
    <3>1. CASE t = "market"
      BY <3>1, <1>3, <1>7 DEF UnreadIsNewest, Priced, NoFrame
    <3>2. CASE t # "market"
      <4>1. socket'["market"] = socket["market"]
            /\ socket["market"] \in DOMAIN network.of \cup {NoSession}
        BY <3>2, <1>4, <1>7 DEF SocketInv, SessionsInUse, Streams
      <4> QED
        <5>1. CASE socket["market"] = NoSession
          BY <5>1, <4>1 DEF UnreadIsNewest
        <5>2. CASE socket["market"] \in DOMAIN network.of
          <6>1. network'.wire[socket'["market"]] = network.wire[socket["market"]]
            BY <5>2, <4>1, <1>3
          <6> QED
            BY <6>1, <4>1, <2>1, <1>1, <1>19 DEF UnreadIsNewest
        <5> QED
          BY <5>1, <5>2, <4>1
    <3> QED
      BY <3>1, <3>2
  <2> QED
    BY <2>3, <2>4, <2>5
<1> QED
  BY <1>1, <1>6, <1>9, <1>10, <1>11, <1>15, <1>16, <1>17, <1>18, <1>20 DEF SocketInv, PricesInv

\* What the event loop resumes is the first of those woken.
ShowsFirst(r) ==
    /\ Shows(r) /\ In(ready, r)
    /\ \A q : In(ready, q) /\ q # r => Precedes(ready, r, q)
    /\ network'.wire[reading[r]] = NoFrame

\* One task goes on, and may take its frame.
LEMMA ReaderStep ==
  ASSUME SocketInv, NEW r \in Readers, NEW session, ReaderMoved(r, session),
         session = NoSession \/ \E t \in Streams : session = socket[t],
         SocketTyped', SameSessions,
         \A s \in DOMAIN network.of :
             \/ network'.wire[s] = network.wire[s]
             \/ s = reading[r] /\ network'.wire[s] = NoFrame,
         In(ready', r) => network'.wire[reading'[r]] = network.wire[reading'[r]],
         shown' = shown \/ (shown' = TradeOf(r) /\ ShowsFirst(r)),
         crypto' \in SessionsOf("execution") \cup {NoSession}, KeysFit', NoticesReadable',
         past'.told = past.told, past'.doubled = past.doubled,
         UNCHANGED <<socket, awaited, subscription>>
  PROVE  SocketInv' /\ (~past'.doubled => shown' >= shown)
<1>1. /\ SocketTyped /\ NetworkTyped /\ SessionsInUse /\ LatestInUse /\ OneReaderEach /\ TradesBounded
      /\ "execution" \in Streams /\ "market" \in Streams /\ "execution" # "market"
      /\ r \in Readers
  BY DEF SocketInv, SocketTyped, Streams
<1>2. /\ \A t \in Streams : SessionsOf(t)' = SessionsOf(t)
      /\ network'.of = network.of
      /\ \A t \in Streams : SessionsOf(t) \subseteq DOMAIN network.of
      /\ \A t \in Streams : socket[t] \in SessionsOf(t) \cup {NoSession}
      /\ \A s \in DOMAIN network.of : s # NoSession
      /\ SessionsOf("execution") \cap SessionsOf("market") = {}
  BY <1>1, SessionsAreNumbered DEF SameSessions, SessionsOf, SessionsInUse, NoSession
<1>3. /\ reading' \in [Readers -> Nat]
      /\ reading'[r] \in {session, NoSession}
      /\ \A q \in Readers \ {r} : reading'[q] = reading[q]
      /\ OneReaderEach'
      /\ ready' \in Seq(Readers)
  BY DEF ReaderMoved
<1>4. /\ \A q : In(ready', q) =>
          \/ In(ready, q) /\ q # r
          \/ q = r /\ reading'[r] # NoSession /\ network.wire[reading'[r]] # NoFrame
      /\ \A q, p : Precedes(ready', q, p) =>
          \/ Precedes(ready, q, p) /\ q # r /\ p # r
          \/ In(ready, q) /\ q # r /\ p = r
  BY DEF ReaderMoved
<1>5. /\ \A q : In(ready, q) => q \in Readers /\ reading[q] \in DOMAIN network.of
      /\ \A q : In(ready', q) => q \in Readers
      /\ \A q, p : Precedes(ready, q, p) => In(ready, q) /\ In(ready, p)
  <2>1. \A q : In(ready, q) => q \in Readers
    BY <1>1, LenProperties DEF SocketTyped, In
  <2>2. \A q : In(ready', q) => q \in Readers
    BY <1>3, LenProperties DEF In
  <2>3. \A q, p : Precedes(ready, q, p) => In(ready, q) /\ In(ready, p)
    BY DEF Precedes, In
  <2> QED
    BY <2>1, <2>2, <2>3 DEF SocketInv, SessionsInUse, WokenHaveFrames
<1>6. reading'[r] = NoSession \/ \E t \in Streams : reading'[r] = socket[t] /\ socket[t] \in SessionsOf(t)
  BY <1>2, <1>3
\* A task that stays in the queue keeps its frame.
<1>7. \A q : In(ready, q) /\ q # r => /\ reading'[q] = reading[q]
                                      /\ network'.wire[reading[q]] = network.wire[reading[q]]
  <2> SUFFICES ASSUME NEW q, In(ready, q), q # r
               PROVE  /\ reading'[q] = reading[q]
                      /\ network'.wire[reading[q]] = network.wire[reading[q]]
    OBVIOUS
  <2>1. q \in Readers /\ reading[q] \in DOMAIN network.of /\ reading[q] # NoSession
    BY <1>2, <1>5
  <2>2. reading[q] # reading[r]
    BY <2>1, <1>1 DEF OneReaderEach
  <2> QED
    BY <2>1, <2>2, <1>3
<1>8. WokenHaveFrames'
  BY <1>4, <1>7 DEF SocketInv, WokenHaveFrames
<1>9. SessionsInUse'
  <2>1. \A q \in Readers : reading'[q] \in {NoSession} \cup DOMAIN network.of
    BY <1>1, <1>2, <1>3, <1>6 DEF SessionsInUse
  <2> QED
    BY <2>1, <1>1, <1>2 DEF SessionsInUse, SameSessions
<1>10. LatestInUse'
  <2>1. ASSUME NEW q \in Readers, reading'[q] \in SessionsOf("execution")
        PROVE  \A other \in SessionsOf("execution") : other <= reading'[q]
    <3>1. CASE q = r
      <4>1. PICK t \in Streams : reading'[r] = socket[t] /\ socket[t] \in SessionsOf(t)
        BY <2>1, <3>1, <1>1, <1>2, <1>6
      <4>2. t = "execution"
        BY <2>1, <3>1, <4>1, <1>2 DEF Streams
      <4> QED
        BY <4>1, <4>2, <3>1, <1>1, <1>2 DEF LatestInUse, Latest
    <3>2. CASE q # r
      BY <2>1, <3>2, <1>1, <1>3 DEF LatestInUse, Latest
    <3> QED
      BY <3>1, <3>2
  <2>2. ASSUME awaited["execution"] = "connection"
        PROVE  socket["execution"] = NoSession /\ Drained'
    <3>1. socket["execution"] = NoSession /\ Drained
      BY <2>2, <1>1 DEF LatestInUse
    <3>2. reading'[r] \notin SessionsOf("execution")
      <4>1. CASE reading'[r] = NoSession
        BY <4>1, <1>1, <1>2
      <4>2. CASE \E t \in Streams : reading'[r] = socket[t] /\ socket[t] \in SessionsOf(t)
        <5>1. PICK t \in Streams : reading'[r] = socket[t] /\ socket[t] \in SessionsOf(t)
          BY <4>2
        <5>2. t = "market"
          BY <5>1, <3>1, <1>1, <1>2 DEF Streams
        <5> QED
          BY <5>1, <5>2, <1>2
      <4> QED
        BY <4>1, <4>2, <1>6
    <3> QED
      BY <3>1, <3>2, <1>1, <1>2, <1>3 DEF Drained
  <2> QED
    BY <2>1, <2>2, <1>1, <1>2 DEF LatestInUse, Latest
<1>11. ConnectionHeld'
  BY <1>1, <1>2 DEF SocketInv, ConnectionHeld, SameSessions
<1>12. TradesBounded' /\ network.traded \in Nat /\ shown \in Nat
      /\ \A s \in DOMAIN network.of : network.wire[s].trade \in Nat
  <2>1. network.traded \in Nat /\ NoFrame.trade = 0
        /\ \A s \in DOMAIN network.of : network.wire[s] \in Frame
    BY <1>1, SessionsAreNumbered, SocketAssumption DEF NetworkTyped, NoFrame
  <2>2. \A s \in DOMAIN network.of : network.wire[s].trade \in 0 .. MaxTrades
    BY <2>1 DEF Frame
  <2>3. \A s \in DOMAIN network.of : network'.wire[s].trade <= network.traded
    BY <2>1, <2>2, <1>1 DEF TradesBounded
  <2>4. shown' \in 0 .. MaxTrades /\ shown' <= network.traded
    BY <2>2, <1>1, <1>5 DEF TradesBounded, TradeOf, ShowsFirst
  <2> QED
    BY <2>1, <2>2, <2>3, <2>4, <1>1, <1>2, SocketAssumption DEF TradesBounded, SameSessions
<1>13. \A q : In(ready, q) /\ q # r => (Shows(q)' <=> Shows(q)) /\ TradeOf(q)' = TradeOf(q)
  BY <1>2, <1>1, <1>7 DEF Shows, TradeOf
\* One that comes to read finds what is unread.
<1>14. In(ready', r) /\ Shows(r)' =>
          /\ reading'[r] = socket["market"] /\ socket["market"] \in DOMAIN network.of
          /\ Priced(network.wire[socket["market"]])
          /\ TradeOf(r)' = network.wire[socket["market"]].trade
  <2> SUFFICES ASSUME In(ready', r), Shows(r)'
               PROVE  /\ reading'[r] = socket["market"] /\ socket["market"] \in DOMAIN network.of
                      /\ Priced(network.wire[socket["market"]])
                      /\ TradeOf(r)' = network.wire[socket["market"]].trade
    OBVIOUS
  <2>1. reading'[r] \in SessionsOf("market") /\ reading'[r] # NoSession
    BY <1>1, <1>2 DEF Shows
  <2>2. reading'[r] = socket["market"]
    BY <2>1, <1>2, <1>6 DEF Streams
  <2>3. network'.wire[reading'[r]] = network.wire[reading'[r]]
    OBVIOUS
  <2> QED
    BY <2>1, <2>2, <2>3, <1>1, <1>2 DEF Shows, TradeOf
<1>15. ASSUME ~past'.doubled
       PROVE  FeedIsLatest' /\ WokenInOrder' /\ UnreadIsNewest' /\ shown' >= shown
  <2>1. FeedIsLatest /\ WokenInOrder /\ UnreadIsNewest
    BY <1>15 DEF SocketInv, PricesInv
  <2>2. shown' \in Nat /\ shown' >= shown
    BY <2>1, <1>1, <1>5, <1>12, SocketAssumption DEF WokenInOrder, ShowsFirst, TradeOf
  <2>3. ASSUME NEW q, In(ready, q), q # r, Shows(q)
        PROVE  shown' <= TradeOf(q) /\ TradeOf(q) \in Nat
    <3>1. TradeOf(q) \in Nat
      BY <2>3, <1>5, <1>12 DEF TradeOf
    <3>2. CASE shown' = shown
      BY <3>1, <3>2, <2>1, <2>3 DEF WokenInOrder
    <3>3. CASE shown' = TradeOf(r) /\ ShowsFirst(r)
      BY <3>1, <3>3, <2>1, <2>3 DEF WokenInOrder, ShowsFirst
    <3> QED
      BY <3>1, <3>2, <3>3
  <2>4. FeedIsLatest'
    <3>1. ASSUME NEW s \in SessionsOf("market") \cap network.open
          PROVE  /\ Latest(s, "market")
                 /\ shown' <= network.sent[s]
                 /\ \A other \in SessionsOf("market") : network'.wire[other].trade <= network.sent[s]
      <4>1. /\ Latest(s, "market") /\ shown <= network.sent[s]
            /\ \A other \in SessionsOf("market") : network.wire[other].trade <= network.sent[s]
        BY <2>1 DEF FeedIsLatest
      <4>2. network.sent[s] \in Nat /\ s \in DOMAIN network.of
        BY <1>1, <1>2, SessionsAreNumbered
      <4>3. NoFrame.trade = 0
        BY DEF NoFrame
      <4>4. shown' <= network.sent[s]
        BY <4>1 DEF ShowsFirst, Shows, TradeOf
      <4>5. \A other \in SessionsOf("market") : network'.wire[other].trade <= network.sent[s]
        BY <4>1, <4>2, <4>3, <1>1, <1>2
      <4> QED
        BY <4>1, <4>4, <4>5
    <3> QED
      BY <3>1, <1>1, <1>2 DEF FeedIsLatest, Latest, SameSessions
  <2>5. \A s : s = socket["market"] /\ s # NoSession /\ Priced(network.wire[s]) /\ network'.wire[s] = network.wire[s]
           => shown' <= network.wire[s].trade
    <3>1. CASE shown' = shown
      BY <3>1, <2>1 DEF UnreadIsNewest
    <3>2. CASE shown' = TradeOf(r) /\ ShowsFirst(r)
      BY <3>2, <2>1 DEF UnreadIsNewest, ShowsFirst
    <3> QED
      BY <3>1, <3>2
  <2>6. WokenInOrder'
    <3>1. ASSUME NEW q, In(ready', q), Shows(q)'
          PROVE  shown' <= TradeOf(q)'
      <4>1. CASE q = r
        BY <4>1, <3>1, <2>5, <1>2, <1>14
      <4>2. CASE q # r
        BY <4>2, <3>1, <2>3, <1>4, <1>13
      <4> QED
        BY <4>1, <4>2
    <3>2. ASSUME NEW q, NEW p, Precedes(ready', q, p), Shows(q)', Shows(p)'
          PROVE  TradeOf(q)' <= TradeOf(p)'
      <4>1. CASE Precedes(ready, q, p) /\ q # r /\ p # r
        BY <4>1, <3>2, <2>1, <1>5, <1>13 DEF WokenInOrder
      <4>2. CASE In(ready, q) /\ q # r /\ p = r
        <5>1. In(ready', r)
          BY <4>2, <3>2 DEF Precedes, In
        <5>2. TradeOf(q)' = TradeOf(q) /\ Shows(q)
          BY <4>2, <3>2, <1>13
        <5>3. /\ socket["market"] # NoSession /\ Priced(network.wire[socket["market"]])
              /\ TradeOf(p)' = network.wire[socket["market"]].trade
          BY <5>1, <4>2, <3>2, <1>2, <1>14
        <5> QED
          BY <5>2, <5>3, <4>2, <2>1 DEF UnreadIsNewest
      <4> QED
        BY <4>1, <4>2, <3>2, <1>4
    <3> QED
      BY <3>1, <3>2 DEF WokenInOrder
  <2>7. UnreadIsNewest'
    <3> DEFINE s == socket["market"]
    <3>1. ASSUME s # NoSession, Priced(network'.wire[s])
          PROVE  /\ shown' <= network'.wire[s].trade
                 /\ \A q : In(ready', q) /\ Shows(q)' => TradeOf(q)' <= network'.wire[s].trade
      <4>1. s \in DOMAIN network.of
        BY <3>1, <1>1, <1>2
      <4>2. network'.wire[s] = network.wire[s]
        BY <3>1, <4>1 DEF Priced, NoFrame
      <4>3. Priced(network.wire[s]) /\ network.wire[s].trade \in Nat
        BY <3>1, <4>1, <4>2, <1>12
      <4>4. shown' <= network.wire[s].trade
        BY <3>1, <4>2, <4>3, <2>5
      <4>5. ASSUME NEW q, In(ready', q), Shows(q)'
            PROVE  TradeOf(q)' <= network.wire[s].trade
        <5>1. CASE q = r
          BY <5>1, <4>3, <4>5, <1>14
        <5>2. CASE q # r
          BY <5>2, <4>3, <4>5, <3>1, <2>1, <1>4, <1>13 DEF UnreadIsNewest
        <5> QED
          BY <5>1, <5>2
      <4> QED
        BY <4>2, <4>4, <4>5
    <3>2. s' = s
      OBVIOUS
    <3> QED
      BY <3>1, <3>2 DEF UnreadIsNewest
  <2> QED
    BY <2>2, <2>4, <2>6, <2>7
<1> QED
  BY <1>3, <1>8, <1>9, <1>10, <1>11, <1>12, <1>15 DEF SocketInv, PricesInv

LEMMA ReceiveStep ==
  ASSUME SocketInv, NEW r \in Readers,
         Leave(r) \/ \E t \in Streams : Receive(r, t)
  PROVE  SocketInv' /\ UNCHANGED shown
<1>1. SocketTyped /\ NetworkTyped /\ OneReaderEach /\ KeysFit /\ NoticesReadable /\ SessionsInUse
  BY DEF SocketInv, SocketTyped
<1>2. UNCHANGED <<socket, awaited, subscription, crypto, shown, network, past>>
  BY DEF Leave, Receive
<1>3. PICK session \in Nat : /\ Reads(r, session)
                             /\ session = NoSession \/ \E t \in Streams : session = socket[t]
  BY <1>1 DEF Leave, Receive, SocketTyped, NoSession
<1>4. ReaderMoved(r, session)
  BY <1>1, <1>3, ReadsMoves
<1>5. SocketTyped'
  BY <1>1, <1>2, <1>4 DEF SocketTyped, ReaderMoved, NetworkTyped
<1>6. SameSessions /\ KeysFit' /\ NoticesReadable'
  BY <1>1, <1>2 DEF SameSessions, KeysFit, NoticesReadable, Latest, Unlocked, SessionsOf
<1> QED
  BY <1>1, <1>2, <1>3, <1>4, <1>5, <1>6, ReaderStep DEF SessionsInUse

LEMMA ResumeStep ==
  ASSUME SocketInv, Resume
  PROVE  SocketInv' /\ (~past'.doubled => shown' >= shown)
<1> DEFINE r == Head(ready)
           session == reading[r]
           frame == network.wire[session]
<1>1. /\ ready # <<>>
      /\ IF session \in SessionsOf("execution")
         THEN TakeExecution(r, frame) /\ UNCHANGED shown
         ELSE TakeMarket(r, frame)
      /\ network' = [network EXCEPT !.wire[session] = NoFrame]
      /\ UNCHANGED <<socket, awaited, subscription>>
  BY DEF Resume
<1>2. /\ SocketTyped /\ NetworkTyped /\ OneReaderEach /\ KeysFit /\ NoticesReadable
      /\ SessionsInUse /\ LatestInUse
      /\ "execution" \in Streams /\ "market" \in Streams /\ "execution" # "market"
  BY DEF SocketInv, SocketTyped, Streams
<1>3. /\ ready \in Seq(Readers) /\ Once(ready) /\ reading \in [Readers -> Nat]
      /\ past \in [told : SUBSET Nat, doubled : BOOLEAN, handed : [session : Nat, key : Nat]]
  BY <1>2 DEF SocketTyped
<1>4. /\ r \in Readers /\ In(ready, r)
      /\ \A q : In(ready, q) /\ q # r => Precedes(ready, r, q)
  BY <1>1, <1>3, HeadIsFirst
<1>5. session \in DOMAIN network.of /\ session \in Nat /\ session # NoSession
  BY <1>2, <1>3, <1>4 DEF SocketInv, SessionsInUse, WokenHaveFrames
<1>6. /\ NetworkTyped' /\ SameSessions
      /\ network'.wire = [network.wire EXCEPT ![session] = NoFrame]
  <2> HIDE DEF r, session
  <2> QED
    BY <1>1, <1>2, <1>5, WireEmptied
<1>7. /\ \A s \in DOMAIN network.of :
             network'.wire[s] = IF s = session THEN NoFrame ELSE network.wire[s]
      /\ \A t \in Streams : SessionsOf(t)' = SessionsOf(t)
      /\ \A t \in Streams : SessionsOf(t) \subseteq DOMAIN network.of
      /\ \A s \in DOMAIN network.of : s # NoSession
      /\ \A s : s \in DOMAIN network.of => s \in SessionsOf("execution") \/ s \in SessionsOf("market")
      /\ SessionsOf("execution") \cap SessionsOf("market") = {}
  <2>1. DOMAIN network.of = DOMAIN network.wire
    BY <1>2, SessionsAreNumbered
  <2> HIDE DEF session
  <2> QED
    BY <2>1, <1>2, <1>6, SessionsAreNumbered DEF SameSessions, SessionsOf, NoSession, Streams
<1> HIDE DEF r, session, frame
<1>8. session = reading[r] /\ frame = network.wire[session] /\ r = Head(ready)
  BY DEF r, session, frame
\* Reading another session than the one that is taken from, it finds its frame.
<1>9. ASSUME NEW next \in Nat, Reads(r, next), next # session,
             next = NoSession \/ \E t \in Streams : next = socket[t]
      PROVE  /\ ReaderMoved(r, next)
             /\ In(ready', r) => network'.wire[reading'[r]] = network.wire[reading'[r]]
  <2>1. ReaderMoved(r, next)
    BY <1>2, <1>4, <1>9, ReadsMoves
  <2>2. reading'[r] = NoSession \/ (reading'[r] = next /\ next \in DOMAIN network.of)
    <3>1. reading'[r] \in {next, NoSession}
      BY <2>1 DEF ReaderMoved
    <3>2. next = NoSession \/ next \in DOMAIN network.of
      BY <1>2, <1>7, <1>9 DEF SessionsInUse
    <3> QED
      BY <3>1, <3>2
  <2>3. In(ready', r) => reading'[r] # NoSession
    BY <2>1 DEF ReaderMoved
  <2> QED
    BY <2>1, <2>2, <2>3, <1>7, <1>9
<1>10. \A s \in DOMAIN network.of :
             \/ network'.wire[s] = network.wire[s]
             \/ s = reading[r] /\ network'.wire[s] = NoFrame
  BY <1>7, <1>8
\* A key that is kept fits as before.
<1>12. ASSUME session \in SessionsOf("execution")
       PROVE  Latest(session, "execution")
  BY <1>12, <1>2, <1>4, <1>8 DEF LatestInUse
<1>13. ASSUME crypto' = crypto,
              frame.kind # "key" \/ session \notin SessionsOf("execution")
       PROVE  KeysFit'
  <2>1. ASSUME NEW s \in SessionsOf("execution"), Latest(s, "execution"), Unlocked(s)'
        PROVE  crypto \in {s, NoSession}
    <3>1. s \in DOMAIN network.of /\ network'.keyed = network.keyed
      BY <2>1, <1>2, <1>6, <1>7 DEF SameSessions
    <3>2. CASE s = session
      <4>1. s \in network.keyed /\ frame.kind # "key"
        BY <2>1, <3>1, <3>2, <1>7, <1>13 DEF Unlocked, NoFrame
      <4> QED
        BY <4>1, <3>2, <2>1, <1>2, <1>8 DEF KeysFit, Unlocked
    <3>3. CASE s # session
      BY <3>1, <3>3, <2>1, <1>2, <1>7 DEF KeysFit, Unlocked
    <3> QED
      BY <3>2, <3>3
  <2> QED
    BY <2>1, <1>2, <1>7, <1>13 DEF KeysFit, Latest
<1>14. ASSUME session \in SessionsOf("execution"), crypto' = session
       PROVE  KeysFit'
  <2>1. ASSUME NEW s \in SessionsOf("execution"), Latest(s, "execution")
        PROVE  s = session
    <3>1. s \in Nat /\ s <= session /\ session <= s
      BY <2>1, <1>2, <1>12, <1>14, <1>7, SessionsAreNumbered DEF Latest
    <3> QED
      BY <3>1, <1>5
  <2> QED
    BY <2>1, <1>2, <1>7, <1>14 DEF KeysFit, Latest
<1>15. CASE session \notin SessionsOf("execution")
  <2>1. /\ shown' = IF Priced(frame) THEN frame.trade ELSE shown
        /\ Reads(r, NoSession)
        /\ UNCHANGED <<crypto, past>>
    BY <1>1, <1>15, <1>8 DEF TakeMarket, r, session, frame
  <2>2. NoSession \in Nat /\ NoSession # session
    BY <1>5 DEF NoSession
  <2>3. ReaderMoved(r, NoSession)
        /\ (In(ready', r) => network'.wire[reading'[r]] = network.wire[reading'[r]])
    BY <2>1, <2>2, <1>9
  <2>4. shown' = shown \/ (shown' = TradeOf(r) /\ ShowsFirst(r))
    <3>1. CASE Priced(frame)
      <4>1. Shows(r) /\ TradeOf(r) = frame.trade
        BY <3>1, <1>5, <1>7, <1>8, <1>15 DEF Shows, TradeOf
      <4>2. network'.wire[reading[r]] = NoFrame
        BY <1>5, <1>7, <1>8
      <4> QED
        BY <4>1, <4>2, <3>1, <2>1, <1>4 DEF ShowsFirst
    <3>2. CASE ~Priced(frame)
      BY <3>2, <2>1
    <3> QED
      BY <3>1, <3>2
  <2>5. SocketTyped'
    BY <2>1, <2>3, <1>1, <1>2, <1>6 DEF SocketTyped, ReaderMoved
  <2>6. KeysFit' /\ NoticesReadable' /\ crypto' \in SessionsOf("execution") \cup {NoSession}
    BY <2>1, <1>2, <1>13, <1>15 DEF NoticesReadable, SessionsInUse
  <2> QED
    BY <2>1, <2>3, <2>4, <2>5, <2>6, <1>1, <1>4, <1>6, <1>10, ReaderStep
<1>16. CASE session \in SessionsOf("execution")
  <2>1. TakeExecution(r, frame) /\ UNCHANGED shown
    BY <1>1, <1>16 DEF r, session, frame
  <2>2. CASE frame.kind = "notice"
    <3>1. /\ past' = IF crypto # NoSession
                     THEN [past EXCEPT !.handed = [session |-> session, key |-> crypto]] ELSE past
          /\ Reads(r, NoSession)
          /\ UNCHANGED crypto
      BY <2>1, <2>2, <1>8 DEF TakeExecution
    <3>2. NoSession \in Nat /\ NoSession # session
      BY <1>5 DEF NoSession
    <3>3. ReaderMoved(r, NoSession)
          /\ (In(ready', r) => network'.wire[reading'[r]] = network.wire[reading'[r]])
      BY <3>1, <3>2, <1>9
    <3>4. crypto \in {session, NoSession}
      BY <2>2, <1>2, <1>8, <1>12, <1>16 DEF KeysFit, Unlocked
    <3>5. /\ past' \in [told : SUBSET Nat, doubled : BOOLEAN, handed : [session : Nat, key : Nat]]
          /\ past'.told = past.told /\ past'.doubled = past.doubled
          /\ NoticesReadable'
      <4>1. CASE crypto # NoSession
        <5>1. [session |-> session, key |-> crypto] \in [session : Nat, key : Nat]
          BY <4>1, <3>4, <1>5
        <5>2. past' = [past EXCEPT !.handed = [session |-> session, key |-> session]]
          BY <4>1, <3>1, <3>4
        <5> QED
          BY <5>1, <5>2, <4>1, <3>4, <1>3 DEF NoticesReadable
      <4>2. CASE crypto = NoSession
        BY <4>2, <3>1, <1>2, <1>3 DEF NoticesReadable
      <4> QED
        BY <4>1, <4>2
    <3>6. SocketTyped'
      BY <3>3, <3>5, <1>1, <1>2, <1>6 DEF SocketTyped, ReaderMoved
    <3>7. KeysFit' /\ crypto' \in SessionsOf("execution") \cup {NoSession}
      BY <2>2, <3>1, <1>2, <1>13 DEF SessionsInUse
    <3> QED
      BY <2>1, <3>3, <3>5, <3>6, <3>7, <1>1, <1>4, <1>6, <1>10, ReaderStep
  <2>3. CASE frame.kind # "notice"
    <3>1. /\ frame.kind = "key" => crypto' = session
          /\ frame.kind # "key" => crypto' = crypto
          /\ past' = past
      BY <2>1, <2>3, <1>8 DEF TakeExecution, TakeKey
    <3>2. KeysFit' /\ NoticesReadable' /\ crypto' \in SessionsOf("execution") \cup {NoSession}
      BY <3>1, <1>2, <1>13, <1>14, <1>16 DEF NoticesReadable, SessionsInUse
    <3>3. CASE socket["execution"] = session
      <4>1. UNCHANGED reading /\ ready' = Tail(ready)
        BY <2>1, <2>3, <3>3, <1>8 DEF TakeExecution
      <4>2. /\ ready' \in Seq(Readers) /\ Once(ready')
            /\ \A q : In(ready', q) => In(ready, q) /\ q # r
            /\ \A q, p : Precedes(ready', q, p) => Precedes(ready, q, p)
        <5> DEFINE woken == ready'
        <5>1. woken = Tail(ready)
          BY <4>1
        <5> HIDE DEF woken
        <5>2. /\ woken \in Seq(Readers) /\ Once(woken)
              /\ \A q : In(woken, q) => In(ready, q) /\ q # r
              /\ \A q, p : Precedes(woken, q, p) => Precedes(ready, q, p)
          <6>1. ready \in Seq(Readers)
            BY <1>3
          <6>2. Once(ready) /\ ready # <<>>
            BY <1>1, <1>3
          <6> QED
            BY <5>1, <6>1, <6>2, <1>8, TailKeepsOrder
        <5> QED
          BY <5>2 DEF woken
      <4>3. \A q, p : Precedes(ready', q, p) => In(ready', q) /\ In(ready', p)
        BY DEF Precedes, In
      <4>4. ReaderMoved(r, session) /\ ~In(ready', r)
        BY <4>1, <4>2, <4>3, <1>2, <1>3, <1>8 DEF ReaderMoved, OneReaderEach
      <4>5. SocketTyped'
        BY <4>1, <4>2, <3>1, <1>1, <1>2, <1>6 DEF SocketTyped
      <4> QED
        BY <2>1, <3>1, <3>2, <3>3, <4>4, <4>5, <1>1, <1>2, <1>4, <1>6, <1>10, ReaderStep
    <3>4. CASE socket["execution"] # session
      <4>1. Reads(r, socket["execution"]) /\ socket["execution"] \in Nat
        BY <2>1, <2>3, <3>4, <1>2, <1>8 DEF TakeExecution, SocketTyped
      <4>2. ReaderMoved(r, socket["execution"])
            /\ (In(ready', r) => network'.wire[reading'[r]] = network.wire[reading'[r]])
        BY <4>1, <3>4, <1>2, <1>9
      <4>3. SocketTyped'
        BY <4>2, <3>1, <1>1, <1>2, <1>6 DEF SocketTyped, ReaderMoved
      <4> QED
        BY <2>1, <3>1, <3>2, <4>2, <4>3, <1>1, <1>2, <1>4, <1>6, <1>10, ReaderStep
    <3> QED
      BY <3>3, <3>4
  <2> QED
    BY <2>2, <2>3
<1> QED
  BY <1>15, <1>16

LEMMA FramesTyped ==
  ASSUME NetworkTyped, NEW s \in DOMAIN network.of, NEW frame \in Frames(s)
  PROVE  /\ frame \in Frame /\ frame # NoFrame
         /\ frame.kind = "notice" => s \in network.keyed
         /\ frame.kind = "trade" => network.sent[s] < frame.trade
         /\ frame.kind # "trade" => frame.trade = 0
<1>1. network.sent[s] \in Nat
  BY SessionsAreNumbered
<1>2. 0 \in 0 .. MaxTrades
  BY SocketAssumption
<1>3. CASE frame \in [kind : {"trade"}, trade : network.sent[s] + 1 .. MaxTrades]
  <2>1. frame.kind = "trade" /\ frame.trade \in network.sent[s] + 1 .. MaxTrades
        /\ frame \in [kind : {"trade"}, trade : network.sent[s] + 1 .. MaxTrades]
    BY <1>3
  <2>2. frame.trade \in 0 .. MaxTrades /\ network.sent[s] < frame.trade
    BY <2>1, <1>1, SocketAssumption
  <2> QED
    BY <2>1, <2>2 DEF Frame, Kinds, NoFrame
<1>4. CASE /\ frame \in {[kind |-> "control", trade |-> 0], [kind |-> "key", trade |-> 0],
                         [kind |-> "notice", trade |-> 0], [kind |-> "quote", trade |-> 0]}
           /\ frame.kind = "notice" => s \in network.keyed
  BY <1>2, <1>4 DEF Frame, Kinds, NoFrame
<1> QED
  BY <1>3, <1>4 DEF Frames

LEMMA ArriveStep ==
  ASSUME SocketInv, NEW s \in network.open, Arrive(s)
  PROVE  SocketInv' /\ UNCHANGED shown
<1>1. /\ SocketTyped /\ NetworkTyped /\ OneReaderEach /\ KeysFit /\ SessionsInUse /\ LatestInUse
      /\ TradesBounded /\ "execution" \in Streams /\ "market" \in Streams
  BY DEF SocketInv, SocketTyped, Streams
<1>2. s \in DOMAIN network.of /\ network.wire[s] = NoFrame
  BY <1>1 DEF Arrive, SessionsInUse
<1>3. PICK frame \in Frames(s) :
         network' = [network EXCEPT
           !.wire[s] = frame,
           !.keyed = IF frame.kind = "key" THEN @ \cup {s} ELSE @,
           !.sent[s] = IF frame.kind = "trade" THEN frame.trade ELSE @,
           !.traded = IF frame.trade > @ THEN frame.trade ELSE @]
  BY DEF Arrive
<1>4. /\ frame \in Frame /\ frame # NoFrame /\ frame.trade \in 0 .. MaxTrades
      /\ frame.kind = "notice" => s \in network.keyed
      /\ frame.kind = "trade" => network.sent[s] < frame.trade
      /\ frame.kind # "trade" => frame.trade = 0
  <2>1. frame \in Frame
    BY <1>1, <1>2, FramesTyped
  <2>2. frame.trade \in 0 .. MaxTrades
    BY <2>1 DEF Frame
  <2> QED
    BY <2>1, <2>2, <1>1, <1>2, FramesTyped
<1>5. /\ NetworkTyped'
      /\ network'.of = network.of /\ network'.open = network.open
      /\ network'.keyed = IF frame.kind = "key" THEN network.keyed \cup {s} ELSE network.keyed
      /\ network'.wire = [network.wire EXCEPT ![s] = frame]
      /\ network'.sent = [network.sent EXCEPT
                ![s] = IF frame.kind = "trade" THEN frame.trade ELSE @]
      /\ network'.traded = IF frame.trade > network.traded THEN frame.trade ELSE network.traded
  <2>1. frame \in Frame
    BY <1>4
  <2> QED
    BY <2>1, <1>1, <1>2, <1>3, FrameArrived
<1>6. /\ UNCHANGED <<socket, awaited, subscription, crypto, reading, shown, past>>
      /\ ready' = IF \E r \in Readers : reading[r] = s
                  THEN Append(ready, CHOOSE r \in Readers : reading[r] = s) ELSE ready
  BY DEF Arrive
<1>7. /\ \A t \in Streams : SessionsOf(t)' = SessionsOf(t)
      /\ \A t \in Streams : SessionsOf(t) \subseteq DOMAIN network.of
      /\ \A other \in DOMAIN network.of : other \in Nat /\ other # NoSession
      /\ network.wire \in [DOMAIN network.of -> Frame]
      /\ network.sent \in [DOMAIN network.of -> Nat]
      /\ network.traded \in Nat
  BY <1>1, <1>5, SessionsAreNumbered DEF SessionsOf, NoSession, NetworkTyped
<1>8. /\ \A other \in DOMAIN network.of :
            /\ network'.wire[other] = IF other = s THEN frame ELSE network.wire[other]
            /\ network'.sent[other] = IF other = s /\ frame.kind = "trade"
                                      THEN frame.trade ELSE network.sent[other]
            /\ network.wire[other].trade \in Nat /\ network.sent[other] \in Nat
      /\ frame.trade \in Nat
  <2>1. \A f \in Frame : f.trade \in Nat
    BY SocketAssumption DEF Frame
  <2>2. \A other \in DOMAIN network.of : network.wire[other].trade \in Nat /\ network.sent[other] \in Nat
    BY <2>1, <1>7
  <2>3. \A other \in DOMAIN network.of :
            network'.wire[other] = IF other = s THEN frame ELSE network.wire[other]
    BY <1>5, <1>7
  <2>4. \A other \in DOMAIN network.of :
            network'.sent[other] = IF other = s /\ frame.kind = "trade"
                                      THEN frame.trade ELSE network.sent[other]
    BY <1>2, <1>5, <1>7
  <2> QED
    BY <2>1, <2>2, <2>3, <2>4, <1>4
<1>9. /\ \A q : In(ready, q) => q \in Readers /\ reading[q] \in DOMAIN network.of /\ reading[q] # s
      /\ \A q, p : Precedes(ready, q, p) => In(ready, q) /\ In(ready, p)
  <2>1. \A q : In(ready, q) => q \in Readers
    BY <1>1, LenProperties DEF SocketTyped, In
  <2>2. \A q, p : Precedes(ready, q, p) => In(ready, q) /\ In(ready, p)
    BY DEF Precedes, In
  <2> QED
    BY <2>1, <2>2, <1>1, <1>2 DEF SocketInv, SessionsInUse, WokenHaveFrames
\* Who waits for the frame is woken, behind the others.
<1>10. /\ ready' \in Seq(Readers) /\ Once(ready')
       /\ \A q : In(ready', q) => In(ready, q) \/ (q \in Readers /\ reading[q] = s)
       /\ \A q, p : Precedes(ready', q, p) =>
              Precedes(ready, q, p) \/ (In(ready, q) /\ p \in Readers /\ reading[p] = s)
  <2>1. CASE \E r \in Readers : reading[r] = s
    <3> DEFINE r == CHOOSE r \in Readers : reading[r] = s
               woken == ready'
    <3>1. r \in Readers /\ reading[r] = s /\ woken = Append(ready, r)
      BY <2>1, <1>6
    <3> HIDE DEF r, woken
    <3>2. ready \in Seq(Readers)
      BY <1>1 DEF SocketTyped
    <3>3. Once(ready)
      BY <1>1 DEF SocketTyped
    <3>4. ~In(ready, r)
      BY <3>1, <1>9
    <3>5. /\ woken \in Seq(Readers) /\ Once(woken)
          /\ \A q : In(woken, q) => In(ready, q) \/ q = r
          /\ \A q, p : Precedes(woken, q, p) => Precedes(ready, q, p) \/ (In(ready, q) /\ p = r)
      <4>1. ASSUME NEW x \in Readers, ~In(ready, x), NEW w, w = Append(ready, x)
            PROVE  /\ w \in Seq(Readers) /\ Once(w)
                   /\ \A q : In(w, q) => In(ready, q) \/ q = x
                   /\ \A q, p : Precedes(w, q, p) => Precedes(ready, q, p) \/ (In(ready, q) /\ p = x)
        BY <4>1, <3>2, <3>3, AppendAddsLast, ZenonT(30)
      <4> QED
        BY <4>1, <3>1, <3>4
    <3>6. /\ woken \in Seq(Readers) /\ Once(woken)
          /\ \A q : In(woken, q) => In(ready, q) \/ (q \in Readers /\ reading[q] = s)
          /\ \A q, p : Precedes(woken, q, p) =>
                Precedes(ready, q, p) \/ (In(ready, q) /\ p \in Readers /\ reading[p] = s)
      BY <3>1, <3>5
    <3> QED
      BY <3>6 DEF woken
  <2>2. CASE ~\E r \in Readers : reading[r] = s
    BY <2>2, <1>1, <1>6 DEF SocketTyped
  <2> QED
    BY <2>1, <2>2
<1>11. SocketTyped'
  BY <1>1, <1>5, <1>6, <1>10 DEF SocketTyped
<1>12. WokenHaveFrames'
  BY <1>2, <1>4, <1>6, <1>7, <1>8, <1>9, <1>10 DEF SocketInv, WokenHaveFrames
<1>13. OneReaderEach' /\ SessionsInUse' /\ LatestInUse'
  BY <1>1, <1>2, <1>5, <1>6, <1>7
  DEF OneReaderEach, SessionsInUse, LatestInUse, Latest, Drained
<1>14. KeysFit'
  <2>1. ASSUME NEW e \in SessionsOf("execution"), Latest(e, "execution"), Unlocked(e)'
        PROVE  crypto \in {e, NoSession}
    <3>1. CASE e # s
      <4>1. Unlocked(e)
        BY <2>1, <3>1, <1>1, <1>5, <1>7, <1>8 DEF Unlocked
      <4> QED
        BY <4>1, <2>1, <1>1 DEF KeysFit
    <3>2. CASE e = s
      <4>1. frame.kind # "key"
        BY <2>1, <3>2, <1>2, <1>8 DEF Unlocked
      <4>2. s \in network.keyed /\ network.wire[s].kind # "key"
        BY <4>1, <2>1, <3>2, <1>2, <1>4, <1>5, <1>8 DEF Unlocked, NoFrame
      <4> QED
        BY <4>2, <2>1, <3>2, <1>1 DEF KeysFit, Unlocked
    <3> QED
      BY <3>1, <3>2
  <2> QED
    BY <2>1, <1>1, <1>6, <1>7 DEF KeysFit, Latest
<1>15. NoticesReadable' /\ ConnectionHeld'
  BY <1>1, <1>5, <1>6, <1>7 DEF SocketInv, NoticesReadable, ConnectionHeld
<1>16. TradesBounded'
  <2>1. network'.traded \in Nat /\ network'.traded >= network.traded /\ network'.traded >= frame.trade
    BY <1>5, <1>7, <1>8
  <2>2. shown' \in 0 .. MaxTrades /\ shown' <= network'.traded
    BY <2>1, <1>1, <1>6, <1>7, SocketAssumption DEF TradesBounded
  <2>3. \A other \in DOMAIN network.of : network'.wire[other].trade <= network'.traded
    BY <2>1, <1>1, <1>7, <1>8 DEF TradesBounded
  <2> QED
    BY <2>2, <2>3, <1>5 DEF TradesBounded
<1>17. ASSUME ~past'.doubled
       PROVE  FeedIsLatest' /\ WokenInOrder' /\ UnreadIsNewest'
  <2>1. FeedIsLatest /\ WokenInOrder /\ UnreadIsNewest /\ shown' = shown /\ shown \in Nat
    BY <1>1, <1>6, <1>17, SocketAssumption DEF SocketInv, PricesInv, TradesBounded
  <2>2. \A q : In(ready, q) => (Shows(q)' <=> Shows(q)) /\ TradeOf(q)' = TradeOf(q)
                               /\ TradeOf(q) \in Nat
    BY <1>1, <1>6, <1>7, <1>8, <1>9 DEF Shows, TradeOf
  \* A trade that comes is later than what the market has brought before.
  <2>3. ASSUME s \in SessionsOf("market"), frame.kind = "trade"
        PROVE  /\ shown < frame.trade
               /\ \A other \in SessionsOf("market") : network.wire[other].trade < frame.trade
               /\ \A q : In(ready, q) /\ Shows(q) => TradeOf(q) < frame.trade
    <3>1. /\ shown <= network.sent[s]
          /\ \A other \in SessionsOf("market") : network.wire[other].trade <= network.sent[s]
      BY <2>1, <2>3 DEF FeedIsLatest
    <3>2. shown < frame.trade /\ \A other \in SessionsOf("market") : network.wire[other].trade < frame.trade
      BY <3>1, <2>1, <2>3, <1>1, <1>2, <1>4, <1>7, <1>8
    <3> QED
      BY <3>2 DEF Shows, TradeOf
  <2>4. FeedIsLatest'
    <3>1. ASSUME NEW m \in SessionsOf("market") \cap network.open
          PROVE  /\ Latest(m, "market")
                 /\ shown <= network'.sent[m]
                 /\ \A other \in SessionsOf("market") : network'.wire[other].trade <= network'.sent[m]
      <4>1. /\ Latest(m, "market") /\ shown <= network.sent[m]
            /\ \A other \in SessionsOf("market") : network.wire[other].trade <= network.sent[m]
        BY <2>1 DEF FeedIsLatest
      <4>2. m \in DOMAIN network.of
        BY <1>1, <1>7
      <4>3. CASE m = s /\ frame.kind = "trade"
        <5>1. network'.sent[m] = frame.trade
          BY <4>2, <4>3, <1>8
        <5>2. \A other \in SessionsOf("market") :
                 network'.wire[other] = frame \/ network'.wire[other] = network.wire[other]
          BY <1>1, <1>7, <1>8
        <5>3. /\ shown < frame.trade
              /\ \A other \in SessionsOf("market") : network.wire[other].trade < frame.trade
          BY <4>3, <2>3
        <5>4. \A other \in SessionsOf("market") : network.wire[other].trade \in Nat
          BY <1>1, <1>7, <1>8
        <5> QED
          BY <5>1, <5>2, <5>3, <5>4, <4>1, <2>1, <1>8
      <4>4. CASE ~(m = s /\ frame.kind = "trade")
        <5>1. network'.sent[m] = network.sent[m] /\ network.sent[m] \in Nat
          BY <4>2, <4>4, <1>8
        <5>2. s \in SessionsOf("market") => m = s
          <6>1. s \in SessionsOf("market") => Latest(s, "market")
            BY <2>1 DEF FeedIsLatest
          <6>2. s \in Nat /\ m \in Nat
            BY <4>2, <1>2, <1>7
          <6> QED
            BY <6>1, <6>2, <4>1 DEF Latest
        <5>3. s \in SessionsOf("market") => frame.trade = 0
          BY <5>2, <4>4, <1>4
        <5>4. ASSUME NEW other \in SessionsOf("market")
              PROVE  network'.wire[other].trade <= network'.sent[m]
          <6>1. other \in DOMAIN network.of
            BY <1>1, <1>7
          <6> QED
            BY <6>1, <5>1, <5>3, <4>1, <1>8
        <5> QED
          BY <5>1, <5>4, <4>1
      <4> QED
        BY <4>3, <4>4
    <3> QED
      BY <3>1, <2>1, <1>1, <1>5, <1>7 DEF FeedIsLatest, Latest
  <2>5. ASSUME NEW q, In(ready', q), Shows(q)', ~In(ready, q)
        PROVE  reading[q] = s /\ s \in SessionsOf("market") /\ frame.kind = "trade"
               /\ TradeOf(q)' = frame.trade
    BY <2>5, <1>1, <1>2, <1>6, <1>7, <1>8, <1>10 DEF Shows, TradeOf, Priced
  <2>6. WokenInOrder'
    <3>1. ASSUME NEW q, In(ready', q), Shows(q)'
          PROVE  shown <= TradeOf(q)'
      <4>1. CASE In(ready, q)
        BY <4>1, <3>1, <2>1, <2>2 DEF WokenInOrder
      <4>2. CASE ~In(ready, q)
        BY <4>2, <3>1, <2>1, <2>3, <2>5, <1>8
      <4> QED
        BY <4>1, <4>2
    <3>2. ASSUME NEW q, NEW p, Precedes(ready', q, p), Shows(q)', Shows(p)'
          PROVE  TradeOf(q)' <= TradeOf(p)'
      <4>1. CASE Precedes(ready, q, p)
        BY <4>1, <3>2, <2>1, <2>2, <1>9 DEF WokenInOrder
      <4>2. CASE In(ready, q) /\ p \in Readers /\ reading[p] = s
        <5>1. In(ready', p) /\ ~In(ready, p)
          BY <4>2, <3>2, <1>9 DEF Precedes, In
        <5>2. s \in SessionsOf("market") /\ frame.kind = "trade" /\ TradeOf(p)' = frame.trade
          BY <5>1, <3>2, <2>5
        <5>3. TradeOf(q) < frame.trade /\ TradeOf(q)' = TradeOf(q) /\ TradeOf(q) \in Nat
          BY <5>2, <4>2, <3>2, <2>2, <2>3
        <5> QED
          BY <5>2, <5>3, <1>8
      <4> QED
        BY <4>1, <4>2, <3>2, <1>10
    <3> QED
      BY <3>1, <3>2, <2>1 DEF WokenInOrder
  <2>7. UnreadIsNewest'
    <3> DEFINE m == socket["market"]
    <3>1. ASSUME m # NoSession, Priced(network'.wire[m])
          PROVE  /\ shown <= network'.wire[m].trade
                 /\ \A q : In(ready', q) /\ Shows(q)' => TradeOf(q)' <= network'.wire[m].trade
      <4>1. m \in SessionsOf("market") /\ m \in DOMAIN network.of
        BY <3>1, <1>1, <1>7 DEF SessionsInUse
      <4>2. CASE m = s
        <5>1. frame.kind = "trade" /\ network'.wire[m] = frame
          BY <3>1, <4>1, <4>2, <1>8 DEF Priced
        <5>2. s \in SessionsOf("market")
          BY <4>1, <4>2
        <5>3. shown <= frame.trade
          BY <5>1, <5>2, <2>1, <2>3, <1>8
        <5>4. ASSUME NEW q, In(ready', q), Shows(q)'
              PROVE  TradeOf(q)' <= frame.trade
          <6>1. CASE In(ready, q)
            BY <6>1, <5>1, <5>2, <5>4, <2>2, <2>3, <1>8
          <6>2. CASE ~In(ready, q)
            BY <6>2, <5>4, <2>5, <1>8
          <6> QED
            BY <6>1, <6>2
        <5> QED
          BY <5>1, <5>3, <5>4
      <4>3. CASE m # s
        <5>1. network'.wire[m] = network.wire[m] /\ Priced(network.wire[m])
          BY <3>1, <4>1, <4>3, <1>8
        <5>2. /\ shown <= network.wire[m].trade
              /\ \A q : In(ready, q) /\ Shows(q) => TradeOf(q) <= network.wire[m].trade
          BY <5>1, <3>1, <2>1 DEF UnreadIsNewest
        <5>3. s \notin SessionsOf("market")
          <6>1. s \in SessionsOf("market") => Latest(s, "market")
            BY <2>1 DEF FeedIsLatest
          <6>2. Latest(m, "market")
            BY <3>1, <1>1 DEF LatestInUse
          <6>3. s \in Nat /\ m \in Nat
            BY <4>1, <1>2, <1>7
          <6> QED
            BY <6>1, <6>2, <6>3, <4>1, <4>3 DEF Latest
        <5>4. ASSUME NEW q, In(ready', q), Shows(q)'
              PROVE  TradeOf(q)' <= network.wire[m].trade
          BY <5>2, <5>3, <5>4, <2>2, <2>5
        <5> QED
          BY <5>1, <5>2, <5>4
      <4> QED
        BY <4>2, <4>3
    <3>2. m' = m
      BY <1>6
    <3> QED
      BY <3>1, <3>2, <2>1 DEF UnreadIsNewest
  <2> QED
    BY <2>4, <2>6, <2>7
<1> QED
  BY <1>6, <1>11, <1>12, <1>13, <1>14, <1>15, <1>16, <1>17 DEF SocketInv, PricesInv

LEMMA HangUpStep ==
  ASSUME SocketInv, NEW s \in network.open, HangUp(s)
  PROVE  SocketInv' /\ UNCHANGED shown
<1>1. /\ SocketTyped /\ NetworkTyped /\ OneReaderEach /\ KeysFit /\ SessionsInUse /\ LatestInUse
      /\ TradesBounded /\ "execution" \in Streams /\ "market" \in Streams
  BY DEF SocketInv, SocketTyped, Streams
<1>2. s \in DOMAIN network.of
  BY <1>1 DEF SessionsInUse
<1>3. /\ network' = [network EXCEPT !.open = @ \ {s}, !.keyed = @ \ {s}, !.sent[s] = 0,
                      !.topics = {topic \in @ : topic[1] # s}]
      /\ UNCHANGED <<socket, awaited, subscription, crypto, reading, ready, shown, past>>
  BY DEF HangUp
<1>4. /\ NetworkTyped'
      /\ network'.of = network.of /\ network'.wire = network.wire
      /\ network'.open = network.open \ {s} /\ network'.keyed = network.keyed \ {s}
      /\ network'.sent = [network.sent EXCEPT ![s] = 0]
      /\ network'.traded = network.traded
  BY <1>1, <1>2, <1>3, HungUp
<1>5. /\ \A t \in Streams : SessionsOf(t)' = SessionsOf(t)
      /\ \A m \in network'.open : network'.sent[m] = network.sent[m]
  BY <1>1, <1>2, <1>4, SessionsAreNumbered DEF SessionsOf, SessionsInUse
<1>6. SocketTyped'
  BY <1>1, <1>3, <1>4 DEF SocketTyped
<1>7. WokenHaveFrames' /\ OneReaderEach' /\ SessionsInUse' /\ LatestInUse'
  BY <1>1, <1>3, <1>4, <1>5
  DEF SocketInv, WokenHaveFrames, OneReaderEach, SessionsInUse, LatestInUse, Latest, Drained
<1>8. KeysFit' /\ NoticesReadable' /\ ConnectionHeld' /\ TradesBounded'
  BY <1>1, <1>3, <1>4, <1>5
  DEF SocketInv, KeysFit, Latest, Unlocked, NoticesReadable, ConnectionHeld, TradesBounded
<1>9. \A r : Shows(r)' = Shows(r) /\ TradeOf(r)' = TradeOf(r)
  BY <1>1, <1>3, <1>4, <1>5 DEF Shows, TradeOf
<1>10. ASSUME ~past'.doubled
       PROVE  FeedIsLatest' /\ WokenInOrder' /\ UnreadIsNewest'
  <2>1. FeedIsLatest /\ WokenInOrder /\ UnreadIsNewest
    BY <1>3, <1>10 DEF SocketInv, PricesInv
  <2> QED
    BY <2>1, <1>1, <1>3, <1>4, <1>5, <1>9
    DEF FeedIsLatest, Latest, WokenInOrder, UnreadIsNewest
<1> QED
  BY <1>3, <1>6, <1>7, <1>8, <1>10 DEF SocketInv, PricesInv

LEMMA SocketStep ==
  ASSUME SocketInv, NEW credentials, SocketNext(credentials)
  PROVE  SocketInv' /\ (~past'.doubled => shown' >= shown)
<1>1. shown \in Nat
  BY SocketAssumption DEF SocketInv, TradesBounded
<1>2. ASSUME NEW t \in Streams,
             Connect(t) \/ Sent(t, credentials) \/ StreamFails(t) \/ Close(t)
      PROVE  SocketInv' /\ UNCHANGED shown
  BY <1>2, CommandStep
<1>3. ASSUME Subscribe(credentials)
      PROVE  SocketInv' /\ UNCHANGED shown
  BY <1>3, CommandStep DEF Streams
<1>4. ASSUME NEW t \in Streams, Connected(t)
      PROVE  SocketInv' /\ UNCHANGED shown
  BY <1>4, ConnectedStep
<1>5. ASSUME NEW r \in Readers, Leave(r) \/ \E t \in Streams : Receive(r, t)
      PROVE  SocketInv' /\ UNCHANGED shown
  BY <1>5, ReceiveStep
<1>6. ASSUME NEW s \in network.open, Arrive(s) \/ HangUp(s)
      PROVE  SocketInv' /\ UNCHANGED shown
  BY <1>6, ArriveStep, HangUpStep
<1>7. ASSUME Resume
      PROVE  SocketInv' /\ (~past'.doubled => shown' >= shown)
  BY <1>7, ResumeStep
<1> QED
  BY <1>1, <1>2, <1>3, <1>4, <1>5, <1>6, <1>7 DEF SocketNext

LEMMA SocketInvStutters ==
  ASSUME SocketInv, UNCHANGED socketVars
  PROVE  SocketInv'
<1>1. UNCHANGED <<socket, awaited, subscription, crypto, reading, ready, shown, network, past>>
  BY DEF socketVars
<1>2. /\ \A t : SessionsOf(t)' = SessionsOf(t)
      /\ \A s, t : Latest(s, t)' = Latest(s, t)
      /\ \A s : Unlocked(s)' = Unlocked(s)
      /\ \A r : Shows(r)' = Shows(r) /\ TradeOf(r)' = TradeOf(r)
      /\ Drained' = Drained
  BY <1>1 DEF SessionsOf, Latest, Unlocked, Shows, TradeOf, Drained
<1>3. SocketTyped' /\ WokenHaveFrames' /\ OneReaderEach'
  BY <1>1 DEF SocketInv, SocketTyped, NetworkTyped, WokenHaveFrames, OneReaderEach
<1>4. SessionsInUse' /\ LatestInUse' /\ KeysFit'
  BY <1>1, <1>2 DEF SocketInv, SessionsInUse, LatestInUse, KeysFit
<1>5. NoticesReadable' /\ ConnectionHeld' /\ TradesBounded'
  BY <1>1, <1>2 DEF SocketInv, NoticesReadable, ConnectionHeld, TradesBounded
<1>6. PricesInv'
  BY <1>1, <1>2 DEF SocketInv, PricesInv, FeedIsLatest, WokenInOrder, UnreadIsNewest
<1> QED
  BY <1>3, <1>4, <1>5, <1>6 DEF SocketInv

-----------------------------------------------------------------------------
\* The calendar.

\* Induction over the natural numbers, for sets.
LEMMA Climbs ==
  ASSUME NEW S, 0 \in S, \A n \in Nat : n \in S => n + 1 \in S
  PROVE  Nat \subseteq S
<1> DEFINE Missing == {0..n : n \in Nat \ S}
<1> SUFFICES ASSUME Nat \ S # {} PROVE FALSE
  OBVIOUS
<1>1. Missing # {} /\ Missing \subseteq FiniteSubsetsOf(Nat)
  <2>1. \A n \in Nat : 0..n \in SUBSET Nat /\ IsFiniteSet(0..n)
    BY FS_Interval
  <2>2. \A n \in Nat : 0..n \in FiniteSubsetsOf(Nat)
    BY <2>1 DEF FiniteSubsetsOf
  <2> QED BY <2>2
<1>2. PICK X \in Missing : \A Y \in Missing : <<Y, X>> \notin StrictSubsetOrdering(Nat)
  <2> HIDE DEF Missing
  <2> QED BY <1>1, WFMin, FS_StrictSubsetOrderingWellFounded
<1>3. PICK x \in Nat \ S : X = 0..x
  BY <1>2
<1>4. x # 0 /\ x - 1 \in Nat /\ (x - 1) + 1 = x
  BY <1>3
<1>5. CASE x - 1 \in S
  BY <1>5, <1>4, <1>3
<1>6. CASE x - 1 \notin S
  <2>1. 0..(x - 1) \in Missing
    BY <1>6, <1>4
  <2> DEFINE A == 0..(x - 1)
             B == 0..x
  <2>2. A \in SUBSET Nat /\ B \in SUBSET Nat /\ A \subseteq B /\ x \in B /\ x \notin A
    BY <1>4
  <2> HIDE DEF A, B
  <2>3. <<A, B>> \in StrictSubsetOrdering(Nat)
    BY <2>2 DEF StrictSubsetOrdering
  <2> QED
    BY <2>1, <2>3, <1>2, <1>3 DEF A, B
<1> QED
  BY <1>5, <1>6

\* A set of whole numbers between two bounds has a last one and a first one.
LEMMA IntervalEnds ==
  ASSUME NEW a \in Int, NEW b \in Int, NEW S, S \subseteq a .. b, S # {}
  PROVE  /\ Max(S) \in S /\ \A x \in S : x <= Max(S)
         /\ Min(S) \in S /\ \A x \in S : Min(S) <= x
<1> DEFINE Up == {n \in Nat : \A T \in SUBSET (a .. b) :
                     (\E x \in T : b - x <= n) => \E x \in T : \A y \in T : x >= y}
           Down == {n \in Nat : \A T \in SUBSET (a .. b) :
                     (\E x \in T : x - a <= n) => \E x \in T : \A y \in T : x =< y}
<1>1. 0 \in Up /\ 0 \in Down
  OBVIOUS
<1>2. ASSUME NEW n \in Nat, n \in Up PROVE n + 1 \in Up
  <2>1. ASSUME NEW T \in SUBSET (a .. b), \E x \in T : b - x <= n + 1
        PROVE  \E x \in T : \A y \in T : x >= y
    <3>1. CASE \E x \in T : b - x <= n
      BY <3>1, <1>2
    <3>2. CASE ~\E x \in T : b - x <= n
      <4>1. PICK x \in T : b - x <= n + 1
        BY <2>1
      <4>2. \A y \in T : x >= y
        BY <4>1, <3>2
      <4> QED
        BY <4>2
    <3> QED
      BY <3>1, <3>2
  <2> QED
    BY <2>1
<1>3. ASSUME NEW n \in Nat, n \in Down PROVE n + 1 \in Down
  <2>1. ASSUME NEW T \in SUBSET (a .. b), \E x \in T : x - a <= n + 1
        PROVE  \E x \in T : \A y \in T : x =< y
    <3>1. CASE \E x \in T : x - a <= n
      BY <3>1, <1>3
    <3>2. CASE ~\E x \in T : x - a <= n
      <4>1. PICK x \in T : x - a <= n + 1
        BY <2>1
      <4>2. \A y \in T : x =< y
        BY <4>1, <3>2
      <4> QED
        BY <4>2
    <3> QED
      BY <3>1, <3>2
  <2> QED
    BY <2>1
<1>4. Nat \subseteq Up /\ Nat \subseteq Down
  <2> HIDE DEF Up, Down
  <2> QED
    BY <1>1, <1>2, <1>3, Climbs
<1>5. PICK s \in S : s \in a .. b
  OBVIOUS
<1>6. b - s \in Nat /\ s - a \in Nat
  BY <1>5
<1>7. (\E x \in S : \A y \in S : x >= y) /\ (\E x \in S : \A y \in S : x =< y)
  <2>1. b - s \in Up /\ s - a \in Down
    BY <1>4, <1>6
  <2> QED
    BY <2>1, <1>5, <1>6
<1>8. Max(S) \in S /\ \A y \in S : Max(S) >= y
  BY <1>7 DEF Max
<1>9. Min(S) \in S /\ \A y \in S : Min(S) =< y
  BY <1>7 DEF Min
<1> QED
  BY <1>8, <1>9

\* Of any set of the calendar's days.
LEMMA DaysAreWhole ==
  /\ Days \subseteq Int /\ Days # {}
  /\ \E a, b \in Days : Days = a .. b
  /\ \A S \in SUBSET Days : S # {} =>
        /\ Max(S) \in S /\ \A x \in S : x <= Max(S)
        /\ Min(S) \in S /\ \A x \in S : Min(S) <= x
<1> DEFINE a == Min(Days)
           b == Max(Days)
<1>1. Days = a .. b /\ a \in Days /\ b \in Days /\ a \in Int /\ b \in Int
  BY HolidayAssumption
<1> HIDE DEF a, b
<1>2. ASSUME NEW S \in SUBSET Days, S # {}
      PROVE  /\ Max(S) \in S /\ \A x \in S : x <= Max(S)
             /\ Min(S) \in S /\ \A x \in S : Min(S) <= x
  BY <1>1, <1>2, IntervalEnds
<1> QED
  BY <1>1, <1>2

\* What the exchange is closed on lies before the page to come or is known.
KnownBefore == \A d \in Official : YearOf[d] = load.year /\ d < load.base => d \in holidays

LoadTyped ==
    /\ load \in [year : Nat, page : Nat, base : Int, asked : BOOLEAN]
    /\ load # Idle =>
          /\ load.year \in Years /\ load.page \in 1 .. MaxPages /\ load.base \in Days
          /\ KnownBefore

HolidayInv ==
    /\ strict \in BOOLEAN /\ error \in BOOLEAN
    /\ holidays \subseteq Official
    /\ loaded \subseteq Years
    /\ LoadTyped

\* How far the pages of a year's load reach at least.
PagesInv ==
    load # Idle => load.base >= FirstDay(load.year) + (load.page - 1) * (PageLength - 1)

\* A step that ends the load knows the year's holidays as far as its pages reach.
KnownToReach ==
    \A d \in Official : load.year = YearOf[d] => d \in holidays' \/ d > Reach(load.year)

LEMMA HolidayInvGivesTypes == HolidayInv => HolidayTypeOK
  BY DEF HolidayInv, LoadTyped, HolidayTypeOK

LEMMA InitHoliday == HolidayInit => HolidayInv /\ PagesInv
<1>1. Idle \in [year : Nat, page : Nat, base : Int, asked : BOOLEAN]
  BY DEF Idle
<1> QED
  BY <1>1 DEF HolidayInit, HolidayInv, LoadTyped, PagesInv

LEMMA YearStarts ==
  ASSUME NEW year \in Years
  PROVE  /\ FirstDay(year) \in Days /\ YearOf[FirstDay(year)] = year
         /\ \A d \in Days : YearOf[d] = year => FirstDay(year) <= d
<1> DEFINE S == {d \in Days : YearOf[d] = year}
<1>1. S \in SUBSET Days /\ S # {}
  BY DEF Years
<1>2. Min(S) \in S /\ \A x \in S : Min(S) <= x
  BY <1>1, DaysAreWhole
<1> QED
  BY <1>2 DEF FirstDay

LEMMA YearsAreNumbers == Years \subseteq Nat
  BY HolidayAssumption DEF Years

LEMMA BeginKeepsHolidays ==
  ASSUME HolidayInv, NEW year \in Years, Begin(year)
  PROVE  HolidayInv' /\ PagesInv' /\ load' # Idle
<1> DEFINE new == [year |-> year, page |-> 1, base |-> FirstDay(year), asked |-> FALSE]
<1>1. load' = new /\ UNCHANGED <<strict, holidays, loaded, error>>
  BY DEF Begin
<1>2. /\ FirstDay(year) \in Days /\ FirstDay(year) \in Int /\ year \in Nat
      /\ \A d \in Days : YearOf[d] = year => FirstDay(year) <= d /\ d \in Int
  BY YearStarts, YearsAreNumbers, DaysAreWhole
<1>3. new.page = 1 /\ new.year = year /\ new.base = FirstDay(year) /\ new # Idle
  BY DEF Idle
<1>4. new \in [year : Nat, page : Nat, base : Int, asked : BOOLEAN] /\ 1 \in 1 .. MaxPages
  BY <1>2, HolidayAssumption
<1> HIDE DEF new
<1>5. KnownBefore'
  BY <1>1, <1>2, <1>3, HolidayAssumption DEF KnownBefore
<1>6. HolidayInv'
  BY <1>1, <1>2, <1>3, <1>4, <1>5 DEF HolidayInv, LoadTyped
<1>7. PagesInv'
  BY <1>1, <1>2, <1>3, HolidayAssumption DEF PagesInv
<1> QED
  BY <1>1, <1>3, <1>6, <1>7

LEMMA GiveUpKeepsHolidays ==
  ASSUME HolidayInv, GiveUp
  PROVE  HolidayInv' /\ PagesInv' /\ error'
<1>1. Idle \in [year : Nat, page : Nat, base : Int, asked : BOOLEAN]
  BY DEF Idle
<1> QED
  BY <1>1 DEF GiveUp, HolidayInv, LoadTyped, PagesInv

LEMMA TakePageKeepsHolidays ==
  ASSUME HolidayInv, load # Idle, TakePage
  PROVE  /\ HolidayInv' /\ (PagesInv => PagesInv')
         /\ load' = Idle /\ PagesInv => KnownToReach
<1> DEFINE base == load.base
           year == load.year
           page == load.page
<1>1. /\ holidays' = holidays \cup Closed(Page(base))
      /\ loaded' = loaded \cup {year}
      /\ error' = FALSE /\ strict' = strict
      /\ load' = IF Finished(base, page) THEN Idle
                 ELSE [load EXCEPT !.page = page + 1, !.base = NextBase(base), !.asked = FALSE]
  BY DEF TakePage
<1>2. /\ load \in [year : Nat, page : Nat, base : Int, asked : BOOLEAN]
      /\ year \in Years /\ year \in Nat /\ page \in 1 .. MaxPages /\ base \in Days /\ base \in Int
      /\ \A d \in Official : YearOf[d] = year /\ d < base => d \in holidays
      /\ strict \in BOOLEAN /\ holidays \subseteq Official /\ loaded \subseteq Years
  BY YearsAreNumbers, DaysAreWhole DEF HolidayInv, LoadTyped, KnownBefore
<1>3. /\ PageLength \in Nat /\ PageLength >= 2 /\ MaxPages \in Nat /\ page \in Nat
      /\ Official \subseteq Days /\ Days \subseteq Int
      /\ \A d \in Days : YearOf[d] \in Nat
      /\ \A d1, d2 \in Days : d1 <= d2 => YearOf[d1] <= YearOf[d2]
  BY <1>2, HolidayAssumption
<1> HIDE DEF base, year, page
<1>4. /\ Page(base) \in SUBSET Days /\ base \in Page(base)
      /\ \A d \in Days : base <= d /\ d < base + PageLength => d \in Page(base)
      /\ \A d \in Page(base) : d < base + PageLength
  BY <1>2, <1>3 DEF Page
<1>5. /\ holidays' \subseteq Official /\ holidays \subseteq holidays' /\ loaded' \subseteq Years
      /\ \A d \in Official : d \in Page(base) => d \in holidays'
  BY <1>1, <1>2 DEF Closed
<1>6. CASE Finished(base, page)
  <2>1. load' = Idle /\ Idle \in [year : Nat, page : Nat, base : Int, asked : BOOLEAN]
    BY <1>1, <1>6 DEF Idle
  <2>2. ASSUME PagesInv, NEW d \in Official, YearOf[d] = year, ~(d > Reach(year))
        PROVE  d \in holidays'
    <3>1. d \in Days /\ d \in Int
      BY <1>3
    <3>2. CASE d < base
      BY <3>2, <2>2, <1>2, <1>5
    <3>3. CASE d >= base /\ LastPage(base)
      BY <3>1, <3>3, <1>4, <1>5 DEF LastPage
    <3>4. CASE d >= base /\ \E x \in Page(base) : YearOf[x] = load.year + 1
      <4>1. PICK x \in Page(base) : YearOf[x] = year + 1
        BY <3>4 DEF year
      <4>2. x \in Days /\ x \in Int /\ x < base + PageLength
        BY <1>3, <1>4
      <4>3. d < x
        BY <4>1, <4>2, <3>1, <2>2, <1>2, <1>3
      <4> QED
        BY <4>2, <4>3, <3>1, <3>4, <1>2, <1>3, <1>4, <1>5
    <3>5. CASE d >= base /\ page = MaxPages
      <4> DEFINE k == PageLength - 1
                 f == FirstDay(year)
      <4>1. f \in Int /\ k \in Int /\ base >= f + (page - 1) * k /\ d <= f + MaxPages * k
        <5>1. f \in Days
          BY <1>2, YearStarts
        <5>2. base >= f + (page - 1) * k
          BY <2>2, <1>2 DEF PagesInv, base, page, year
        <5>3. k \in Int
          BY <1>3
        <5>4. f \in Int /\ MaxPages * k \in Int
          <6> HIDE DEF k, f
          <6>1. f \in Int
            BY <5>1, <1>3
          <6> QED
            BY <6>1, <5>3, <1>3
        <5>5. d <= f + MaxPages * k
          <6> DEFINE r == MaxPages * k
          <6>1. ~(d > f + r)
            BY <2>2 DEF Reach
          <6>2. r \in Int
            BY <5>4
          <6> HIDE DEF r, f
          <6>3. d <= f + r
            BY <6>1, <6>2, <5>4, <3>1
          <6> QED
            BY <6>3 DEF r
        <5> HIDE DEF k, f
        <5>6. f \in Int
          BY <5>1, <1>3
        <5> QED
          BY <5>2, <5>5, <5>3, <5>6
      <4>2. base + k = base + PageLength - 1
        BY <1>2, <1>3
      <4> HIDE DEF k, f
      <4>3. (page - 1) * k + k = page * k
        BY <4>1, <1>3
      <4>4. d <= base + k
        <5> DEFINE u == (page - 1) * k
                   v == page * k
        <5>1. u \in Int /\ v \in Int
          BY <4>1, <1>3
        <5>2. u + k = v /\ base >= f + u /\ d <= f + v
          BY <4>1, <4>3, <3>5
        <5> HIDE DEF u, v
        <5> QED
          BY <5>1, <5>2, <4>1, <3>1, <1>2
      <4> QED
        BY <4>2, <4>4, <3>1, <3>5, <1>2, <1>3, <1>4, <1>5
    <3> QED
      BY <3>1, <3>2, <3>3, <3>4, <3>5, <1>2, <1>6 DEF Finished
  <2>3. PagesInv => KnownToReach
    BY <2>2 DEF KnownToReach, year
  <2> QED
    BY <2>1, <2>3, <1>1, <1>2, <1>5 DEF HolidayInv, LoadTyped, PagesInv, year
<1>7. CASE ~Finished(base, page)
  <2> DEFINE next == NextBase(base)
  <2>1. next \in Page(base) /\ \A x \in Page(base) : x <= next
    BY <1>4, DaysAreWhole DEF NextBase
  <2>2. next \in Days /\ next \in Int
    BY <2>1, <1>3, <1>4
  <2> HIDE DEF next
  <2>3. page + 1 \in 1 .. MaxPages /\ page + 1 \in Nat
    BY <1>2, <1>3, <1>7 DEF Finished
  <2>4. load' = [load EXCEPT !.page = page + 1, !.base = next, !.asked = FALSE]
    BY <1>1, <1>7 DEF next
  <2>5. /\ load'.page = page + 1 /\ load'.base = next /\ load'.year = year
        /\ load' \in [year : Nat, page : Nat, base : Int, asked : BOOLEAN]
        /\ load' # Idle
    <3>1. /\ load'.page = page + 1 /\ load'.base = next /\ load'.year = year
          /\ load' \in [year : Nat, page : Nat, base : Int, asked : BOOLEAN]
      BY <2>2, <2>3, <2>4, <1>2 DEF year
    <3> QED
      BY <3>1, <2>3 DEF Idle
  <2>6. ASSUME NEW d \in Official, YearOf[d] = year, d < next
        PROVE  d \in holidays'
    <3>1. d \in Days /\ d \in Int /\ next < base + PageLength
      BY <2>1, <1>3, <1>4
    <3>2. CASE d < base
      BY <3>2, <2>6, <1>2, <1>5
    <3>3. CASE ~(d < base)
      BY <3>1, <3>3, <2>2, <2>6, <1>2, <1>3, <1>4, <1>5
    <3> QED
      BY <3>2, <3>3
  <2>7. HolidayInv'
    BY <2>2, <2>3, <2>5, <2>6, <1>1, <1>2, <1>5 DEF HolidayInv, LoadTyped, KnownBefore
  \* The page is full: its last day is the last it can have.
  <2>8. next = base + (PageLength - 1)
    <3>1. PICK z \in Days : ~(z < base + PageLength)
      BY <1>7 DEF Finished, LastPage
    <3>2. base + (PageLength - 1) \in Days
      <4>1. PICK a, b \in Days : Days = a .. b
        BY DaysAreWhole
      <4>2. a \in Int /\ b \in Int /\ z \in Int
        BY <1>3
      <4> QED
        BY <4>1, <4>2, <3>1, <1>2, <1>3
    <3>3. base + (PageLength - 1) \in Page(base)
      BY <3>2, <1>2, <1>3, <1>4
    <3> QED
      BY <3>3, <2>1, <2>2, <1>2, <1>3, <1>4
  <2>9. PagesInv => PagesInv'
    <3> DEFINE k == PageLength - 1
               f == FirstDay(year)
               u == (page - 1) * k
               v == (page + 1 - 1) * k
    <3>1. f \in Int /\ k \in Int /\ next = base + k
      <4>1. f \in Days
        BY <1>2, YearStarts
      <4>2. k \in Int
        BY <1>3
      <4>3. next = base + k
        BY <2>8
      <4> HIDE DEF k, f
      <4>4. f \in Int
        BY <4>1, <1>3
      <4> QED
        BY <4>2, <4>3, <4>4
    <3>2. u \in Int /\ v \in Int /\ u + k = v
      <4> HIDE DEF k, f
      <4> QED
        BY <3>1, <1>3
    <3>3. PagesInv => base >= f + u
      BY <1>2 DEF PagesInv, base, page, year
    <3>4. next >= f + v => PagesInv'
      <4>1. load'.base = next /\ load'.page - 1 = page + 1 - 1 /\ load'.year = year
        <5>1. load'.base = next /\ load'.page = page + 1 /\ load'.year = year
          BY <2>5
        <5>2. page \in Nat
          BY <1>3
        <5> QED
          BY <5>1, <5>2
      <4>2. next >= f + v => load'.base >= FirstDay(load'.year) + (load'.page - 1) * (PageLength - 1)
        BY <4>1
      <4> QED
        BY <4>2 DEF PagesInv
    <3> HIDE DEF k, f, u, v
    <3> QED
      BY <3>1, <3>2, <3>3, <3>4, <1>2, <2>2
  <2> QED
    BY <2>5, <2>7, <2>9
<1> QED
  BY <1>6, <1>7

-----------------------------------------------------------------------------
\* The contract master.

\* How the walk back from a nominal day leaves its year, if it does: it begins
\* on the first page of a load of that year, and ends in the year before.
WalksStayClose ==
    \A line \in Lines : \A day \in NominalDays(line) :
        LET end == LatestTradingDay(day, Official)
        IN  /\ day \in Days
            /\ \/ YearOf[end] = YearOf[day]
               \/ YearOf[end] = YearOf[day] - 1 /\ day < FirstDay(YearOf[day]) + PageLength

\* A name read both ways is one of one year.
MonthsWhole ==
    \A line \in Lines : \A day1, day2 \in NominalDays(line) : YearOf[day1] = YearOf[day2]

SameExpiry(line1, line2) ==
    line1.month = line2.month /\ line1.week = line2.week /\ line1.monthly = line2.monthly

\* Lines that share a code, whether short or standard, are about one contract.
NamesAgree ==
    \A line1, line2 \in Lines :
        (\E c \in {line1.symbol, line1.code} \ {NoCode} : c \in {line2.symbol, line2.code})
            => SameExpiry(line1, line2)

\* The first page of a year is known once the year counts as loaded.
FirstPageKnown ==
    /\ \A y \in loaded : \A d \in Official :
           FirstDay(y) <= d /\ d < FirstDay(y) + PageLength => d \in holidays
    /\ load # Idle => \/ load.page = 1 /\ load.base = FirstDay(load.year)
                      \/ load.year \in loaded

\* An identity was registered with the expiry the calendar gave at the time,
\* and what it gives since is no later.
RegisteredLatest ==
    \A line \in Lines : identities[line.symbol] # NoIdentity =>
        /\ Expiry(line) # NoExpiry
        /\ Expiry(line) <= identities[line.symbol].expiry

RegisteredNamed ==
    \A c \in Codes : identities[c] # NoIdentity => \E line \in Lines : c = line.symbol

ExpiriesInv ==
    /\ HolidayInv /\ FirstPageKnown /\ MasterTypeOK
    /\ NeverExpiresEarly /\ LookupNeverLater /\ RegisteredLatest /\ RegisteredNamed

LEMMA NominalDaysAreWhole ==
  ASSUME NEW line \in Lines
  PROVE  /\ FirstThursday(line.month) \in Int
         /\ MonthlyDay(line.month) \in Int
         /\ WeeklyDay(line.month, line.week) \in Int
         /\ WeeklyDay(line.month, line.week) <= FirstThursday(line.month) + 7 * (line.week - 1)
<1> DEFINE first == FirstThursday(line.month)
           last == LastOfMonth(line.month)
           named == first + 7 * (line.week - 1)
<1>1. /\ MonthOf[line.month] \in Days /\ line.week \in 0 .. 5
      /\ \A m \in DOMAIN MonthOf : MonthOf[m] \in Days
  BY OptionAssumption
<1>2. MonthOf[line.month] \in Int /\ WeekdayOf[MonthOf[line.month]] \in 0 .. 6
  BY <1>1, DaysAreWhole, HolidayAssumption
<1>3. first \in Int
  BY <1>2 DEF FirstThursday
<1>4. last \in Int
  <2> DEFINE later == {m \in DOMAIN MonthOf : MonthOf[m] > MonthOf[line.month]}
             firsts == {MonthOf[m] : m \in later}
  <2>1. Max(Days) \in Int
    BY DaysAreWhole
  <2>2. CASE later # {}
    <3>1. firsts \in SUBSET Days /\ firsts # {}
      BY <1>1, <2>2
    <3> HIDE DEF firsts
    <3>2. Min(firsts) \in Int
      BY <3>1, DaysAreWhole
    <3> QED
      BY <2>2, <3>2 DEF LastOfMonth, firsts
  <2> QED
    BY <2>1, <2>2 DEF LastOfMonth
<1>5. named \in Int
  <2> HIDE DEF first
  <2> QED
    BY <1>1, <1>3
<1>6. WeeklyDay(line.month, line.week) = Min({named, last})
  BY DEF WeeklyDay
<1> HIDE DEF named, last
<1>7. Min({named, last}) \in {named, last} /\ Min({named, last}) <= named
  <2>1. \E x \in {named, last} : \A y \in {named, last} : x =< y
    BY <1>4, <1>5
  <2> QED
    BY <2>1 DEF Min
<1>8. MonthlyDay(line.month) \in Int
  BY <1>3 DEF MonthlyDay
<1> QED
  BY <1>3, <1>4, <1>5, <1>6, <1>7, <1>8 DEF named

\* The walk back ends, and at the latest day that is open.
LEMMA LatestIsOpen ==
  ASSUME NEW line \in Lines, NEW day \in NominalDays(line),
         NEW closed, closed \subseteq Official
  PROVE  LET end == LatestTradingDay(day, closed)
         IN  /\ day \in Int
             /\ end \in Days /\ end \in Int /\ end <= day /\ TradingDay(end, closed)
             /\ \A x \in Days : x <= day /\ TradingDay(x, closed) => x <= end
<1>1. day \in Int
  BY NominalDaysAreWhole DEF NominalDays
<1> DEFINE open == {x \in Days : x <= day /\ TradingDay(x, closed)}
<1>2. open \in SUBSET Days /\ open # {}
  BY ReachAssumption DEF TradingDay
<1>3. Max(open) \in open /\ \A x \in open : x <= Max(open)
  BY <1>2, DaysAreWhole
<1> QED
  BY <1>1, <1>3, DaysAreWhole DEF LatestTradingDay

\* The fewer holidays are known, the later the walk ends.
LEMMA LatestFalls ==
  ASSUME NEW line \in Lines, NEW day \in NominalDays(line),
         NEW fewer, NEW more, fewer \subseteq more, more \subseteq Official
  PROVE  LatestTradingDay(day, more) <= LatestTradingDay(day, fewer)
<1>1. /\ LatestTradingDay(day, more) \in Days
      /\ LatestTradingDay(day, more) <= day
      /\ TradingDay(LatestTradingDay(day, more), more)
  BY LatestIsOpen
<1>2. fewer \subseteq Official
  OBVIOUS
<1>3. \A x \in Days : x <= day /\ TradingDay(x, fewer) => x <= LatestTradingDay(day, fewer)
  BY <1>2, LatestIsOpen
<1> QED
  BY <1>1, <1>3 DEF TradingDay

LEMMA ComputedTyped ==
  ASSUME HolidayInv, NEW line \in Lines, NEW day \in NominalDays(line)
  PROVE  /\ Computed(day) \in Days \cup {NoExpiry}
         /\ Computed(day) # NoExpiry <=> CanWalk(day)
         /\ CanWalk(day) => Computed(day) = LatestTradingDay(day, holidays)
<1>1. holidays \subseteq Official
  BY DEF HolidayInv
<1>2. LatestTradingDay(day, holidays) \in Days
  BY <1>1, LatestIsOpen
<1> QED
  BY <1>2, OptionAssumption DEF Computed

LEMMA ExpiryTyped ==
  ASSUME HolidayInv, NEW line \in Lines
  PROVE  Expiry(line) \in Days \cup {NoExpiry}
<1>1. line.week # 0 => Computed(WeeklyDay(line.month, line.week)) \in Days \cup {NoExpiry}
  BY ComputedTyped DEF NominalDays
<1>2. line.monthly => Computed(MonthlyDay(line.month)) \in Days \cup {NoExpiry}
  BY ComputedTyped DEF NominalDays
<1> QED
  BY <1>1, <1>2 DEF Expiry

-----------------------------------------------------------------------------
\* What a file makes of the lookup and of the registry.
NamesTimely(line, c) == c \in {line.symbol, line.code} /\ Expiry(line) # NoExpiry

LEMMA ParsedFile ==
  ASSUME NEW file \in Files, NEW entries, entries = Parse(file)
  PROVE  /\ DOMAIN entries \subseteq 1 .. Len(file) /\ Len(file) \in Nat
         /\ \A i \in DOMAIN entries : \E line \in Lines :
               /\ entries[i].symbol = line.symbol
               /\ entries[i].identity = Identity(line)
               /\ Expiry(line) # NoExpiry
<1>1. file \in Seq(Lines)
  BY OptionAssumption
<1>2. /\ Len(file) \in Nat /\ DOMAIN file = 1 .. Len(file)
      /\ \A i \in DOMAIN file : file[i] \in Lines
  BY <1>1, LenProperties, ElementOfSeq
<1>3. DOMAIN entries = {n \in DOMAIN file : Expiry(file[n]) # NoExpiry}
  BY DEF Parse
<1>4. ASSUME NEW i \in DOMAIN entries
      PROVE  /\ file[i] \in Lines /\ Expiry(file[i]) # NoExpiry
             /\ entries[i].symbol = file[i].symbol /\ entries[i].identity = Identity(file[i])
  BY <1>2, <1>3 DEF Parse
<1> QED
  BY <1>2, <1>3, <1>4

LEMMA CodesAreNames ==
  ASSUME NEW line \in Lines
  PROVE  line.symbol \in Codes /\ (line.code # NoCode => line.code \in Codes)
BY DEF Codes

\* The lookup keeps a code the file does not name, and takes the expiry of some
\* line that names it otherwise.
LEMMA LookedUp ==
  ASSUME NEW file \in Files, NEW entries, entries = Parse(file), NEW c \in Codes
  PROVE  /\ Naming(entries, c) = {} => Looked(entries)[c] = contracts[c]
         /\ Naming(entries, c) # {} => \E line \in Lines :
               NamesTimely(line, c) /\ Looked(entries)[c] = Expiry(line)
<1> DEFINE named == Naming(entries, c)
<1>1. Naming(entries, c) = {} => Looked(entries)[c] = contracts[c]
  BY DEF Looked
<1>2. ASSUME Naming(entries, c) # {}
      PROVE  \E line \in Lines : NamesTimely(line, c) /\ Looked(entries)[c] = Expiry(line)
  <2>1. named \subseteq 1 .. Len(file) /\ Len(file) \in Int /\ 1 \in Int
    BY ParsedFile DEF Naming
  <2>2. Max(named) \in named
    <3>1. named # {}
      BY <1>2
    <3> DEFINE b == Len(file)
    <3>2. named \subseteq 1 .. b
      BY <2>1
    <3>3. b \in Int
      BY <2>1
    <3>4. 1 \in Int
      OBVIOUS
    <3> HIDE DEF named, b
    <3> QED
      BY <3>1, <3>2, <3>3, <3>4, IntervalEnds
  <2>3. /\ Max(named) \in DOMAIN entries
        /\ c \in {entries[Max(named)].symbol, entries[Max(named)].identity.code}
    BY <2>2 DEF Naming
  <2>4. PICK line \in Lines : /\ entries[Max(named)].symbol = line.symbol
                              /\ entries[Max(named)].identity = Identity(line)
                              /\ Expiry(line) # NoExpiry
    BY <2>3, ParsedFile
  <2>5. Identity(line).code = line.code /\ Identity(line).expiry = Expiry(line)
    BY DEF Identity
  <2>6. NamesTimely(line, c)
    BY <2>3, <2>4, <2>5 DEF NamesTimely
  <2>7. Looked(entries)[c] = Expiry(line)
    BY <1>2, <2>4, <2>5 DEF Looked
  <2> QED
    BY <2>6, <2>7
<1> QED
  BY <1>1, <1>2

\* The registry changes only where it had no identity, to that of some line the
\* lookup took too.
LEMMA RegisteredFrom ==
  ASSUME NEW file \in Files, NEW entries, entries = Parse(file), NEW c \in Codes,
         NEW after, after = Registered(Accepted(entries))[c], after # identities[c]
  PROVE  /\ identities[c] = NoIdentity
         /\ Naming(entries, c) # {}
         /\ \E line \in Lines : /\ c = line.symbol /\ Expiry(line) # NoExpiry
                                /\ after = Identity(line)
<1> DEFINE accepted == Accepted(entries)
           stops == {i \in DOMAIN entries : Contradicted(entries[i])}
           taken == {i \in DOMAIN entries : \A n \in stops : i < n}
<1>1. accepted = [i \in taken |-> entries[i]]
  <2>1. accepted = Restrict(entries, taken)
    BY DEF Accepted
  <2> QED
    BY <2>1 DEF Restrict
<1>2. taken \subseteq DOMAIN entries /\ \A i \in taken : i \in Int
  BY ParsedFile
<1>3. \A i \in taken : ~Contradicted(entries[i])
  <2>1. \A i \in taken : i \in stops => i < i
    OBVIOUS
  <2>2. \A i \in taken : ~(i < i)
    BY <1>2
  <2> QED
    BY <2>1, <2>2, <1>2
<1> HIDE DEF taken, stops, accepted
<1>4. DOMAIN accepted = taken /\ \A i \in taken : accepted[i] = entries[i]
  BY <1>1
<1>5. Of(accepted, c) # {} /\ after = accepted[CHOOSE i \in Of(accepted, c) : TRUE].identity
  BY DEF Registered, accepted
<1>6. PICK i \in Of(accepted, c) : after = accepted[i].identity
  BY <1>5
<1>7. i \in taken /\ i \in DOMAIN entries /\ entries[i].symbol = c /\ entries[i].identity = after
  BY <1>2, <1>4, <1>6 DEF Of
<1>8. identities[c] \in {NoIdentity, after}
  BY <1>3, <1>7 DEF Contradicted
<1>9. i \in Naming(entries, c)
  BY <1>7 DEF Naming
<1> QED
  BY <1>7, <1>8, <1>9, ParsedFile

LEMMA InitMaster == MasterInit => MasterTypeOK /\ \A c \in Codes : identities[c] = NoIdentity
  BY DEF MasterInit, MasterTypeOK

LEMMA LoadKeepsTypes ==
  ASSUME HolidayInv, MasterTypeOK, NEW file \in Files, LoadMaster(file)
  PROVE  MasterTypeOK'
<1> DEFINE entries == Parse(file)
<1>1. CASE ~Readable(entries)
  <2>1. UNCHANGED <<contracts, identities>> /\ refused' = TRUE
    BY <1>1 DEF LoadMaster
  <2> QED
    BY <2>1 DEF MasterTypeOK
<1>2. CASE Readable(entries)
  <2>1. /\ contracts' = Looked(entries) /\ identities' = Registered(Accepted(entries))
        /\ refused' \in BOOLEAN
    BY <1>2 DEF LoadMaster
  <2> HIDE DEF entries
  <2>2. entries = Parse(file)
    BY DEF entries
  <2>3. ASSUME NEW c \in Codes
        PROVE  /\ contracts'[c] \in Days \cup {NoExpiry}
               /\ contracts[c] # NoExpiry => contracts'[c] # NoExpiry
               /\ Naming(entries, c) # {} => contracts'[c] # NoExpiry
    <3>1. CASE Naming(entries, c) = {}
      BY <3>1, <2>1, <2>2, LookedUp DEF MasterTypeOK
    <3>2. CASE Naming(entries, c) # {}
      <4>1. PICK line \in Lines : NamesTimely(line, c) /\ contracts'[c] = Expiry(line)
        BY <3>2, <2>1, <2>2, LookedUp
      <4> QED
        BY <4>1, ExpiryTyped DEF NamesTimely
    <3> QED
      BY <3>1, <3>2
  <2>4. contracts' \in [Codes -> Days \cup {NoExpiry}]
    <3>1. contracts' = [c \in Codes |-> contracts'[c]]
      BY <2>1 DEF Looked
    <3> QED
      BY <3>1, <2>3
  <2>5. ASSUME NEW c \in Codes, identities'[c] # NoIdentity
        PROVE  identities'[c].expiry \in Days /\ contracts'[c] # NoExpiry
    <3>1. CASE identities'[c] = identities[c]
      BY <3>1, <2>3, <2>5 DEF MasterTypeOK
    <3>2. CASE identities'[c] # identities[c]
      <4> DEFINE after == Registered(Accepted(entries))[c]
      <4>1. after # identities[c] /\ identities'[c] = after
        BY <2>1, <3>2
      <4> HIDE DEF after
      <4>2. after = Registered(Accepted(entries))[c]
        BY DEF after
      <4>3. /\ Naming(entries, c) # {}
            /\ \E line \in Lines : /\ c = line.symbol /\ Expiry(line) # NoExpiry
                                   /\ after = Identity(line)
        BY <4>1, <4>2, <2>2, RegisteredFrom
      <4> QED
        BY <4>1, <4>3, <2>3, ExpiryTyped DEF Identity
    <3> QED
      BY <3>1, <3>2
  <2> QED
    BY <2>1, <2>4, <2>5 DEF MasterTypeOK
<1> QED
  BY <1>1, <1>2

-----------------------------------------------------------------------------
\* What a step of the services does to the calendar and to the contracts.
NoCredentials ==
    /\ load = Idle /\ load' = Idle /\ error' = TRUE
    /\ UNCHANGED <<strict, holidays, loaded>>

PageAsked ==
    /\ load # Idle /\ load' = [load EXCEPT !.asked = TRUE]
    /\ UNCHANGED <<strict, holidays, loaded, error>>

CalendarMove ==
    \/ UNCHANGED holidayVars
    \/ NoCredentials
    \/ \E year \in Years : Begin(year)
    \/ PageAsked
    \/ load # Idle /\ GiveUp
    \/ load # Idle /\ TakePage

Loads == \E file \in Files : LoadMaster(file)

Grows == strict' = strict /\ holidays \subseteq holidays' /\ loaded \subseteq loaded'

LEMMA StepMoves ==
  ASSUME [Next]_vars
  PROVE  /\ CalendarMove
         /\ \/ UNCHANGED masterVars
            \/ UNCHANGED <<contracts, identities, holidayVars>> /\ refused' = TRUE
            \/ Loads /\ UNCHANGED holidayVars
<1>1. CASE UNCHANGED serviceVars
  BY <1>1 DEF serviceVars, CalendarMove
<1>2. ASSUME NEW m \in Managers, NEW force \in BOOLEAN, CallToken(m, force)
      PROVE  UNCHANGED holidayVars /\ UNCHANGED masterVars
  BY <1>2 DEF CallToken
<1>3. ASSUME NEW m \in Managers, SaveToken(m) \/ RestartOther(m)
      PROVE  UNCHANGED holidayVars /\ UNCHANGED masterVars
  BY <1>3 DEF SaveToken, RestartOther
<1>4. ASSUME NEW year \in Years, LoadCalendar(year)
      PROVE  CalendarMove /\ UNCHANGED masterVars
  BY <1>4 DEF LoadCalendar, CalendarMove, NoCredentials
<1>5. CASE AskForPage
  BY <1>5 DEF AskForPage, Loading, CalendarMove, PageAsked, masterVars
<1>6. CASE PageArrives \/ PageFails
  BY <1>6 DEF PageArrives, PageFails, Loading, CalendarMove
<1>7. CASE LoadContracts
  <2>1. LoadNothing \/ Loads
    BY <1>7 DEF LoadContracts, Loads
  <2>2. LoadNothing => UNCHANGED <<contracts, identities, holidayVars>> /\ refused' = TRUE
    BY DEF LoadNothing
  <2>3. Loads => UNCHANGED holidayVars
    BY DEF Loads, LoadMaster
  <2> QED
    BY <2>1, <2>2, <2>3 DEF CalendarMove
<1>8. CASE Clock
  BY <1>8 DEF Clock, CalendarMove
<1> QED
  BY <1>1, <1>2, <1>3, <1>4, <1>5, <1>6, <1>7, <1>8 DEF Next, vars, Services, CalendarMove

LEMMA CalendarStep ==
  ASSUME HolidayInv, CalendarMove
  PROVE  HolidayInv' /\ Grows
<1>1. CASE UNCHANGED holidayVars
  BY <1>1 DEF holidayVars, Grows, HolidayInv, LoadTyped, KnownBefore
<1>2. CASE NoCredentials
  BY <1>2 DEF NoCredentials, Grows, HolidayInv, LoadTyped
<1>3. ASSUME NEW year \in Years, Begin(year)
      PROVE  HolidayInv' /\ Grows
  BY <1>3, BeginKeepsHolidays DEF Begin, Grows
<1>4. CASE PageAsked
  <2>1. /\ load'.year = load.year /\ load'.page = load.page /\ load'.base = load.base
        /\ load' \in [year : Nat, page : Nat, base : Int, asked : BOOLEAN]
    BY <1>4 DEF PageAsked, HolidayInv, LoadTyped
  <2>2. load # Idle /\ UNCHANGED <<strict, holidays, loaded, error>>
    BY <1>4 DEF PageAsked
  <2> QED
    BY <2>1, <2>2 DEF Grows, HolidayInv, LoadTyped, KnownBefore
<1>5. CASE load # Idle /\ GiveUp
  BY <1>5, GiveUpKeepsHolidays DEF GiveUp, Grows
<1>6. CASE load # Idle /\ TakePage
  BY <1>6, TakePageKeepsHolidays DEF TakePage, Grows
<1> QED
  BY <1>1, <1>2, <1>3, <1>4, <1>5, <1>6 DEF CalendarMove

LEMMA CalendarPages ==
  ASSUME HolidayInv, PagesInv, CalendarMove
  PROVE  /\ PagesInv'
         /\ load' = Idle /\ ~error' => UNCHANGED holidayVars \/ KnownToReach
<1>1. CASE UNCHANGED holidayVars
  BY <1>1 DEF holidayVars, PagesInv
<1>2. CASE NoCredentials
  BY <1>2 DEF NoCredentials, PagesInv
<1>3. ASSUME NEW year \in Years, Begin(year)
      PROVE  PagesInv' /\ load' # Idle
  BY <1>3, BeginKeepsHolidays
<1>4. CASE PageAsked
  <2>1. /\ load'.year = load.year /\ load'.page = load.page /\ load'.base = load.base
        /\ load.asked # load'.asked \/ load' = load
    BY <1>4 DEF PageAsked, HolidayInv, LoadTyped
  <2>2. load # Idle /\ load'.asked
    BY <1>4 DEF PageAsked, HolidayInv, LoadTyped
  <2>3. load' # Idle
    BY <2>2 DEF Idle
  <2>4. PagesInv'
    BY <2>1, <2>2 DEF PagesInv
  <2> QED
    BY <2>3, <2>4
<1>5. CASE load # Idle /\ GiveUp
  BY <1>5, GiveUpKeepsHolidays
<1>6. CASE load # Idle /\ TakePage
  BY <1>6, TakePageKeepsHolidays
<1> QED
  BY <1>1, <1>2, <1>3, <1>4, <1>5, <1>6 DEF CalendarMove

-----------------------------------------------------------------------------
\* What the calendar makes of a nominal day while it grows.

\* A walk that could be answered can be answered ever after, and ends no later.
LEMMA WalkStays ==
  ASSUME HolidayInv, FirstPageKnown, Grows, HolidayInv', WalksStayClose,
         NEW line \in Lines, NEW day \in NominalDays(line), CanWalk(day)
  PROVE  /\ CanWalk(day)'
         /\ LatestTradingDay(day, holidays') <= LatestTradingDay(day, holidays)
         /\ CanWalk(day)' => Computed(day)' = LatestTradingDay(day, holidays')
<1> DEFINE old == LatestTradingDay(day, holidays)
           new == LatestTradingDay(day, holidays')
           end == LatestTradingDay(day, Official)
<1>1. /\ holidays \subseteq holidays' /\ holidays' \subseteq Official
      /\ loaded \subseteq loaded' /\ strict' = strict
  BY DEF Grows, HolidayInv
<1>2. /\ day \in Int
      /\ old \in Days /\ old \in Int /\ old <= day /\ TradingDay(old, holidays)
      /\ \A x \in Days : x <= day /\ TradingDay(x, holidays) => x <= old
  BY <1>1, LatestIsOpen DEF HolidayInv
<1>3. /\ new \in Days /\ new \in Int /\ new <= day /\ TradingDay(new, holidays')
      /\ \A x \in Days : x <= day /\ TradingDay(x, holidays') => x <= new
  BY <1>1, LatestIsOpen
<1>4. end \in Days /\ end \in Int
  BY LatestIsOpen
<1>5. new <= old
  BY <1>1, LatestFalls
<1>6. end <= new
  BY <1>1, LatestFalls
<1>7. /\ day \in Days
      /\ \/ YearOf[end] = YearOf[day]
         \/ YearOf[end] = YearOf[day] - 1 /\ day < FirstDay(YearOf[day]) + PageLength
  BY DEF WalksStayClose
<1>8. /\ Days \subseteq Int
      /\ \A d \in Days : YearOf[d] \in Nat
      /\ \A d1, d2 \in Days : d1 <= d2 => YearOf[d1] <= YearOf[d2]
  BY HolidayAssumption
<1>9. \A x \in Days : old <= x /\ x <= day /\ WeekdayOf[x] < 5 => ~strict \/ YearOf[x] \in loaded
  BY DEF CanWalk, Walked, Answers
<1> HIDE DEF old, new, end
<1>10. ASSUME NEW x \in Days, new <= x, x <= day, WeekdayOf[x] < 5
       PROVE  ~strict' \/ YearOf[x] \in loaded'
  <2>1. CASE old <= x
    BY <2>1, <1>10, <1>9, <1>1
  <2>2. CASE ~(old <= x) /\ strict
    <3>1. x \in Int /\ new < old
      BY <2>2, <1>10, <1>8, <1>2, <1>3
    <3>2. old \in holidays' /\ old \notin holidays /\ WeekdayOf[old] < 5 /\ old \in Official
      <4>1. ~TradingDay(old, holidays')
        BY <3>1, <1>2, <1>3
      <4> QED
        BY <4>1, <1>1, <1>2 DEF TradingDay
    <3>3. YearOf[old] \in loaded
      BY <3>2, <2>2, <1>2, <1>9
    <3>4. /\ YearOf[end] <= YearOf[x] /\ YearOf[x] <= YearOf[old] /\ YearOf[old] <= YearOf[day]
          /\ YearOf[end] \in Nat /\ YearOf[x] \in Nat /\ YearOf[old] \in Nat
          /\ YearOf[day] \in Nat
      <4>1. end <= x /\ x <= old /\ old <= day
        BY <3>1, <2>2, <1>2, <1>3, <1>4, <1>6, <1>10
      <4> QED
        BY <4>1, <1>2, <1>4, <1>7, <1>8
    <3>5. CASE YearOf[x] = YearOf[old]
      BY <3>3, <3>5, <1>1
    <3>6. CASE YearOf[x] # YearOf[old]
      <4>1. YearOf[old] = YearOf[day] /\ day < FirstDay(YearOf[day]) + PageLength
        BY <3>4, <3>6, <1>7
      <4>2. FirstDay(YearOf[day]) <= old /\ FirstDay(YearOf[day]) \in Int
        <5>1. YearOf[day] \in Years
          BY <1>7 DEF Years
        <5> QED
          BY <5>1, <4>1, <1>2, <1>8, YearStarts
      <4>3. old < FirstDay(YearOf[day]) + PageLength
        BY <4>1, <4>2, <1>2, HolidayAssumption
      <4>4. old \in holidays
        BY <4>1, <4>2, <4>3, <3>2, <3>3 DEF FirstPageKnown
      <4> QED
        BY <4>4, <3>2
    <3> QED
      BY <3>5, <3>6
  <2> QED
    BY <2>1, <2>2, <1>1
<1>11. CanWalk(day)'
  BY <1>10 DEF CanWalk, Walked, Answers, new
<1>12. new <= old /\ Computed(day)' = new
  BY <1>5, <1>11 DEF Computed, new
<1> QED
  BY <1>11, <1>12 DEF old, new

\* The Thursdays of a month are weekdays.
LEMMA MonthlyIsAWeekday ==
  ASSUME WalksStayClose, NEW line \in Lines, line.monthly
  PROVE  /\ MonthlyDay(line.month) \in Days
         /\ WeekdayOf[MonthlyDay(line.month)] < 5
<1> DEFINE first == MonthOf[line.month]
           w == WeekdayOf[first]
           day == MonthlyDay(line.month)
<1>1. day \in Days /\ first \in Days
  BY OptionAssumption DEF WalksStayClose, NominalDays
<1>2. w \in 0 .. 6 /\ first \in Int /\ day \in Int
  BY <1>1, HolidayAssumption
<1>3. WeekdayOf[day] = (w + day - first) % 7
  BY <1>1, HolidayAssumption
<1>4. day = first + ((3 - w) % 7) + 7
  BY DEF MonthlyDay, FirstThursday
<1> HIDE DEF day, first, w
<1>5. (w + ((3 - w) % 7) + 7) % 7 = 3
  <2>1. \A v \in 0 .. 6 : (v + ((3 - v) % 7) + 7) % 7 = 3
    OBVIOUS
  <2> QED
    BY <2>1, <1>2
<1>6. w + day - first = w + ((3 - w) % 7) + 7
  <2>1. (3 - w) % 7 \in Int
    BY <1>2
  <2> QED
    BY <2>1, <1>2, <1>4
<1> QED
  BY <1>1, <1>3, <1>5, <1>6 DEF day

\* A name read both ways: where the walk from the monthly day can be answered,
\* so can that from a weekly day after it.
LEMMA MonthlyAnswersWeekly ==
  ASSUME HolidayInv, WalksStayClose, MonthsWhole,
         NEW line \in Lines, line.monthly, line.week # 0,
         CanWalk(MonthlyDay(line.month)),
         ~CanWalk(WeeklyDay(line.month, line.week))
  PROVE  WeeklyDay(line.month, line.week) <= MonthlyDay(line.month)
<1> DEFINE weekly == WeeklyDay(line.month, line.week)
           monthly == MonthlyDay(line.month)
           endW == LatestTradingDay(weekly, holidays)
           endM == LatestTradingDay(monthly, holidays)
<1>1. /\ weekly \in NominalDays(line) /\ monthly \in NominalDays(line)
      /\ holidays \subseteq Official
  BY DEF NominalDays, HolidayInv
<1> HIDE DEF weekly, monthly
<1>2. /\ weekly \in Int /\ endW \in Days /\ endW \in Int /\ endW <= weekly
      /\ TradingDay(endW, holidays)
      /\ \A x \in Days : x <= weekly /\ TradingDay(x, holidays) => x <= endW
  BY <1>1, LatestIsOpen
<1>3. /\ monthly \in Int /\ endM \in Days /\ endM \in Int /\ endM <= monthly
      /\ TradingDay(endM, holidays)
      /\ \A x \in Days : x <= monthly /\ TradingDay(x, holidays) => x <= endM
  BY <1>1, LatestIsOpen
<1>4. /\ weekly \in Days /\ monthly \in Days /\ YearOf[weekly] = YearOf[monthly]
      /\ WeekdayOf[monthly] < 5
  <2>1. weekly \in Days /\ YearOf[weekly] = YearOf[monthly]
    BY <1>1 DEF WalksStayClose, MonthsWhole
  <2> QED
    BY <2>1, MonthlyIsAWeekday DEF monthly
<1>5. \A x \in Days : endM <= x /\ x <= monthly /\ WeekdayOf[x] < 5 => ~strict \/ YearOf[x] \in loaded
  BY DEF CanWalk, Walked, Answers, monthly
<1>6. PICK x \in Days : /\ endW <= x /\ x <= weekly /\ WeekdayOf[x] < 5
                        /\ strict /\ YearOf[x] \notin loaded
  BY DEF CanWalk, Walked, Answers, weekly
<1>7. /\ Days \subseteq Int /\ \A d \in Days : YearOf[d] \in Nat
      /\ \A d1, d2 \in Days : d1 <= d2 => YearOf[d1] <= YearOf[d2]
  BY HolidayAssumption
<1>8. ASSUME weekly > monthly PROVE FALSE
  <2>1. endM <= endW
    BY <1>8, <1>2, <1>3
  <2>2. CASE x <= monthly
    BY <2>1, <2>2, <1>2, <1>3, <1>5, <1>6, <1>7
  <2>3. CASE ~(x <= monthly)
    <3>1. YearOf[monthly] \in loaded
      BY <1>3, <1>4, <1>5, <1>6
    <3>2. YearOf[monthly] <= YearOf[x] /\ YearOf[x] <= YearOf[weekly]
      BY <2>3, <1>3, <1>4, <1>6, <1>7
    <3>3. YearOf[x] = YearOf[monthly]
      BY <3>2, <1>4, <1>7
    <3> QED
      BY <3>1, <3>3, <1>6
  <2> QED
    BY <2>2, <2>3
<1> QED
  BY <1>8, <1>2, <1>3 DEF weekly, monthly

\* How an expiry came about: by the week, by the month, or not at all.
ByWeek(line) ==
    /\ line.week # 0 /\ CanWalk(WeeklyDay(line.month, line.week))
    /\ Expiry(line) = LatestTradingDay(WeeklyDay(line.month, line.week), holidays)

ByMonth(line) ==
    /\ line.week # 0 => ~CanWalk(WeeklyDay(line.month, line.week))
    /\ line.monthly /\ CanWalk(MonthlyDay(line.month))
    /\ Expiry(line) = LatestTradingDay(MonthlyDay(line.month), holidays)

Unknown(line) ==
    /\ line.week # 0 => ~CanWalk(WeeklyDay(line.month, line.week))
    /\ line.monthly => ~CanWalk(MonthlyDay(line.month))
    /\ Expiry(line) = NoExpiry

LEMMA ExpiryCases ==
  HolidayInv => \A line \in Lines :
      /\ ByWeek(line) \/ ByMonth(line) \/ Unknown(line)
      /\ Expiry(line) = NoExpiry => Unknown(line)
      /\ Expiry(line) \in Days \cup {NoExpiry}
<1> SUFFICES ASSUME HolidayInv, NEW line \in Lines
             PROVE  /\ ByWeek(line) \/ ByMonth(line) \/ Unknown(line)
                    /\ Expiry(line) = NoExpiry => Unknown(line)
                    /\ Expiry(line) \in Days \cup {NoExpiry}
  OBVIOUS
<1> DEFINE weekly == WeeklyDay(line.month, line.week)
           monthly == MonthlyDay(line.month)
<1>1. line.week # 0 =>
        /\ Computed(weekly) # NoExpiry <=> CanWalk(weekly)
        /\ CanWalk(weekly) => Computed(weekly) = LatestTradingDay(weekly, holidays)
  BY ComputedTyped DEF NominalDays
<1>2. line.monthly =>
        /\ Computed(monthly) # NoExpiry <=> CanWalk(monthly)
        /\ CanWalk(monthly) => Computed(monthly) = LatestTradingDay(monthly, holidays)
  BY ComputedTyped DEF NominalDays
<1>3. Expiry(line) = IF line.week # 0 /\ Computed(weekly) # NoExpiry THEN Computed(weekly)
                     ELSE IF line.monthly THEN Computed(monthly) ELSE NoExpiry
  BY DEF Expiry
<1>4. Expiry(line) \in Days \cup {NoExpiry}
  BY ExpiryTyped
<1> QED
  BY <1>1, <1>2, <1>3, <1>4 DEF ByWeek, ByMonth, Unknown

LEMMA ExpiryCasesNext ==
  HolidayInv' => \A line \in Lines :
      /\ ByWeek(line)' \/ ByMonth(line)' \/ Unknown(line)'
      /\ Expiry(line)' \in Days \cup {NoExpiry}
<1>1. (HolidayInv => \A line \in Lines :
          /\ ByWeek(line) \/ ByMonth(line) \/ Unknown(line)
          /\ Expiry(line) = NoExpiry => Unknown(line)
          /\ Expiry(line) \in Days \cup {NoExpiry})'
  BY ExpiryCases, PTL
<1> QED
  BY <1>1

\* While the calendar grows, an expiry that was found is found again, and no
\* later.
LEMMA ExpiryFalls ==
  ASSUME HolidayInv, FirstPageKnown, Grows, HolidayInv', WalksStayClose, MonthsWhole,
         NEW line \in Lines, Expiry(line) # NoExpiry
  PROVE  Expiry(line)' # NoExpiry /\ Expiry(line)' <= Expiry(line)
<1> DEFINE weekly == WeeklyDay(line.month, line.week)
           monthly == MonthlyDay(line.month)
<1>1. /\ line.week # 0 => weekly \in NominalDays(line)
      /\ line.monthly => monthly \in NominalDays(line)
  BY DEF NominalDays
<1>2. /\ holidays \subseteq Official /\ holidays' \subseteq Official
  BY DEF HolidayInv
<1>3. NoExpiry \notin Days
  BY OptionAssumption
<1>4. ByWeek(line) \/ ByMonth(line)
  BY ExpiryCases DEF Unknown
<1>5. ByWeek(line)' \/ ByMonth(line)' \/ Unknown(line)'
  BY ExpiryCasesNext
<1>6. CASE ByWeek(line)
  <2>1. /\ line.week # 0 /\ CanWalk(weekly)
        /\ Expiry(line) = LatestTradingDay(weekly, holidays)
    BY <1>6 DEF ByWeek
  <2>2. CanWalk(weekly)' /\ LatestTradingDay(weekly, holidays') <= LatestTradingDay(weekly, holidays)
    BY <2>1, <1>1, WalkStays
  <2>3. Expiry(line)' = LatestTradingDay(weekly, holidays')
    BY <2>1, <2>2, <1>5 DEF ByWeek, ByMonth, Unknown
  <2>4. LatestTradingDay(weekly, holidays') \in Days
    BY <2>1, <1>1, <1>2, LatestIsOpen
  <2> QED
    BY <2>1, <2>2, <2>3, <2>4, <1>3
<1>7. CASE ByMonth(line)
  <2>1. /\ line.monthly /\ CanWalk(monthly)
        /\ line.week # 0 => ~CanWalk(weekly)
        /\ Expiry(line) = LatestTradingDay(monthly, holidays)
    BY <1>7 DEF ByMonth
  <2>2. /\ CanWalk(monthly)'
        /\ LatestTradingDay(monthly, holidays') <= LatestTradingDay(monthly, holidays)
    BY <2>1, <1>1, WalkStays
  <2>3. /\ LatestTradingDay(monthly, holidays') \in Days
        /\ LatestTradingDay(monthly, holidays') \in Int
        /\ \A x \in Days : x <= monthly /\ TradingDay(x, holidays')
             => x <= LatestTradingDay(monthly, holidays')
    BY <2>1, <1>1, <1>2, LatestIsOpen
  <2>4. LatestTradingDay(monthly, holidays) \in Int /\ monthly \in Int
    BY <2>1, <1>1, <1>2, LatestIsOpen
  <2>5. ~Unknown(line)'
    BY <2>1, <2>2 DEF Unknown
  <2>6. CASE ByMonth(line)'
    <3>1. Expiry(line)' = LatestTradingDay(monthly, holidays')
      BY <2>6 DEF ByMonth
    <3> QED
      BY <3>1, <2>1, <2>2, <2>3, <1>3
  <2>7. CASE ByWeek(line)'
    <3>1. line.week # 0 /\ Expiry(line)' = LatestTradingDay(weekly, holidays')
      BY <2>7 DEF ByWeek
    <3>2. weekly <= monthly
      BY <3>1, <2>1, MonthlyAnswersWeekly
    <3>3. /\ LatestTradingDay(weekly, holidays') \in Days
          /\ LatestTradingDay(weekly, holidays') \in Int
          /\ LatestTradingDay(weekly, holidays') <= weekly /\ weekly \in Int
          /\ TradingDay(LatestTradingDay(weekly, holidays'), holidays')
      BY <3>1, <1>1, <1>2, LatestIsOpen
    <3>4. LatestTradingDay(weekly, holidays') <= monthly
      BY <3>2, <3>3, <2>4
    <3>5. LatestTradingDay(weekly, holidays') <= LatestTradingDay(monthly, holidays')
      BY <3>3, <3>4, <2>3
    <3> QED
      BY <3>1, <3>3, <3>5, <2>1, <2>2, <2>3, <2>4, <1>3
  <2> QED
    BY <2>5, <2>6, <2>7, <1>5
<1> QED
  BY <1>4, <1>6, <1>7

\* No expiry is earlier than the official one.
LEMMA ExpiryIsLate ==
  ASSUME HolidayInv, WalksStayClose, MonthsWhole,
         NEW line \in Lines, Expiry(line) # NoExpiry
  PROVE  Expiry(line) >= OfficialExpiry[line]
<1> DEFINE weekly == WeeklyDay(line.month, line.week)
           monthly == MonthlyDay(line.month)
<1>1. /\ line.week # 0 => weekly \in NominalDays(line)
      /\ line.monthly => monthly \in NominalDays(line)
  BY DEF NominalDays
<1>2. holidays \subseteq Official
  BY DEF HolidayInv
<1>3. /\ line.week # 0 => OfficialExpiry[line] = LatestTradingDay(weekly, Official)
      /\ line.week = 0 => OfficialExpiry[line] = LatestTradingDay(monthly, Official)
  BY DEF OfficialExpiry, NominalDay
<1>4. CASE ByWeek(line)
  <2>1. line.week # 0 /\ Expiry(line) = LatestTradingDay(weekly, holidays)
    BY <1>4 DEF ByWeek
  <2>2. LatestTradingDay(weekly, Official) <= LatestTradingDay(weekly, holidays)
    BY <2>1, <1>1, <1>2, LatestFalls
  <2>3. LatestTradingDay(weekly, Official) \in Int /\ LatestTradingDay(weekly, holidays) \in Int
    BY <2>1, <1>1, <1>2, LatestIsOpen
  <2> QED
    BY <2>1, <2>2, <2>3, <1>3
<1>5. CASE ByMonth(line)
  <2>1. /\ line.monthly /\ CanWalk(monthly)
        /\ line.week # 0 => ~CanWalk(weekly)
        /\ Expiry(line) = LatestTradingDay(monthly, holidays)
    BY <1>5 DEF ByMonth
  <2>2. LatestTradingDay(monthly, Official) <= LatestTradingDay(monthly, holidays)
    BY <2>1, <1>1, <1>2, LatestFalls
  <2>3. /\ LatestTradingDay(monthly, Official) \in Int /\ LatestTradingDay(monthly, holidays) \in Int
        /\ monthly \in Int
        /\ \A x \in Days : x <= monthly /\ TradingDay(x, Official)
             => x <= LatestTradingDay(monthly, Official)
    BY <2>1, <1>1, <1>2, LatestIsOpen
  <2>4. CASE line.week = 0
    BY <2>1, <2>2, <2>3, <2>4, <1>3
  <2>5. CASE line.week # 0
    <3>1. weekly <= monthly
      BY <2>1, <2>5, MonthlyAnswersWeekly
    <3>2. /\ LatestTradingDay(weekly, Official) \in Days
          /\ LatestTradingDay(weekly, Official) \in Int
          /\ LatestTradingDay(weekly, Official) <= weekly /\ weekly \in Int
          /\ TradingDay(LatestTradingDay(weekly, Official), Official)
      BY <2>5, <1>1, LatestIsOpen
    <3>3. LatestTradingDay(weekly, Official) <= monthly
      BY <3>1, <3>2, <2>3
    <3>4. LatestTradingDay(weekly, Official) <= LatestTradingDay(monthly, Official)
      BY <3>2, <3>3, <2>3
    <3> QED
      BY <3>2, <3>4, <2>1, <2>2, <2>3, <2>5, <1>3
  <2> QED
    BY <2>4, <2>5
<1> QED
  BY <1>4, <1>5, ExpiryCases DEF Unknown

\* Nor does a calendar err that is complete up to the nominal day.
LEMMA ExpiryIsOfficial ==
  ASSUME HolidayInv, NEW line \in Lines, CompleteFor(line), Expiry(line) # NoExpiry
  PROVE  Expiry(line) = OfficialExpiry[line]
<1>1. \A day : CanWalk(day)
  BY DEF CanWalk, Walked, Answers, Years, CompleteFor
<1>2. ByWeek(line) \/ ByMonth(line)
  BY ExpiryCases DEF Unknown
<1>3. Expiry(line) = LatestTradingDay(NominalDay(line), holidays)
  BY <1>1, <1>2 DEF ByWeek, ByMonth, NominalDay
<1> DEFINE day == NominalDay(line)
<1>4. \A x \in Days : x <= day => (TradingDay(x, holidays) <=> TradingDay(x, Official))
  BY DEF HolidayInv, CompleteFor, TradingDay
<1>5. {x \in Days : x <= day /\ TradingDay(x, holidays)}
        = {x \in Days : x <= day /\ TradingDay(x, Official)}
  BY <1>4
<1>6. LatestTradingDay(day, holidays) = LatestTradingDay(day, Official)
  BY <1>5 DEF LatestTradingDay
<1> QED
  BY <1>3, <1>6 DEF OfficialExpiry

\* The first page of a load is taken before its year counts as loaded.
LEMMA FirstPageStays ==
  ASSUME HolidayInv, FirstPageKnown, CalendarMove
  PROVE  FirstPageKnown'
<1>1. CASE UNCHANGED holidayVars
  BY <1>1 DEF holidayVars, FirstPageKnown
<1>2. CASE NoCredentials
  BY <1>2 DEF NoCredentials, FirstPageKnown
<1>3. ASSUME NEW year \in Years, Begin(year)
      PROVE  FirstPageKnown'
  BY <1>3 DEF Begin, FirstPageKnown
<1>4. CASE PageAsked
  <2>1. load'.year = load.year /\ load'.page = load.page /\ load'.base = load.base
    BY <1>4 DEF PageAsked, HolidayInv, LoadTyped
  <2>2. load # Idle /\ UNCHANGED <<holidays, loaded>>
    BY <1>4 DEF PageAsked
  <2> QED
    BY <2>1, <2>2 DEF FirstPageKnown
<1>5. CASE load # Idle /\ GiveUp
  BY <1>5 DEF GiveUp, FirstPageKnown
<1>6. CASE load # Idle /\ TakePage
  <2>1. /\ holidays' = holidays \cup Closed(Page(load.base))
        /\ loaded' = loaded \cup {load.year}
        /\ load' = Idle \/ load'.year = load.year
    BY <1>6 DEF TakePage, HolidayInv, LoadTyped
  <2>2. ASSUME NEW y \in loaded', NEW d \in Official,
               FirstDay(y) <= d, d < FirstDay(y) + PageLength
        PROVE  d \in holidays'
    <3>1. CASE y \in loaded
      BY <3>1, <2>1, <2>2 DEF FirstPageKnown
    <3>2. CASE y \notin loaded
      <4>1. y = load.year /\ load.base = FirstDay(load.year)
        BY <3>2, <2>1, <2>2, <1>6 DEF FirstPageKnown
      <4> QED
        BY <4>1, <2>1, <2>2, HolidayAssumption DEF Closed, Page
    <3> QED
      BY <3>1, <3>2
  <2> QED
    BY <2>1, <2>2 DEF FirstPageKnown
<1> QED
  BY <1>1, <1>2, <1>3, <1>4, <1>5, <1>6 DEF CalendarMove

LEMMA SameLineSameExpiry ==
  ASSUME NEW line1 \in Lines, NEW line2 \in Lines, SameExpiry(line1, line2)
  PROVE  Expiry(line1) = Expiry(line2) /\ OfficialExpiry[line1] = OfficialExpiry[line2]
BY DEF SameExpiry, Expiry, OfficialExpiry, NominalDay

\* A line of the code a lookup or registration is about says the same of it.
LEMMA NamedAgree ==
  ASSUME NamesAgree, NEW line \in Lines, NEW other \in Lines,
         line.symbol \in {other.symbol, other.code}
  PROVE  Expiry(line) = Expiry(other) /\ OfficialExpiry[line] = OfficialExpiry[other]
<1>1. line.symbol # NoCode
  BY OptionAssumption
<1>2. SameExpiry(line, other)
  BY <1>1 DEF NamesAgree
<1> QED
  BY <1>2, SameLineSameExpiry

\* What the file makes of the codes of a line.
LoadedLine(line) ==
    LET c == line.symbol IN
    /\ \/ contracts'[c] = contracts[c]
       \/ Expiry(line) # NoExpiry /\ contracts'[c] = Expiry(line)
    /\ identities'[c] # identities[c] =>
          /\ identities[c] = NoIdentity
          /\ Expiry(line) # NoExpiry
          /\ contracts'[c] = Expiry(line)
          /\ identities'[c].expiry = Expiry(line)

LEMMA LoadsLines ==
  ASSUME NamesAgree, NEW file \in Files, LoadMaster(file)
  PROVE  /\ \A line \in Lines : LoadedLine(line)
         /\ \A c \in Codes : identities'[c] # identities[c] => \E line \in Lines : c = line.symbol
<1> DEFINE entries == Parse(file)
<1>1. CASE ~Readable(entries)
  <2>1. UNCHANGED <<contracts, identities>>
    BY <1>1 DEF LoadMaster
  <2> QED
    BY <2>1 DEF LoadedLine
<1>2. CASE Readable(entries)
  <2>1. contracts' = Looked(entries) /\ identities' = Registered(Accepted(entries))
    BY <1>2 DEF LoadMaster
  <2> HIDE DEF entries
  <2>2. entries = Parse(file)
    BY DEF entries
  <2>3. ASSUME NEW c \in Codes, identities'[c] # identities[c]
        PROVE  /\ identities[c] = NoIdentity
               /\ Naming(entries, c) # {}
               /\ \E line \in Lines : /\ c = line.symbol /\ Expiry(line) # NoExpiry
                                      /\ identities'[c] = Identity(line)
    <3> DEFINE after == Registered(Accepted(entries))[c]
    <3>1. after # identities[c] /\ identities'[c] = after
      BY <2>1, <2>3
    <3> HIDE DEF after
    <3>2. after = Registered(Accepted(entries))[c]
      BY DEF after
    <3> QED
      BY <3>1, <3>2, <2>2, RegisteredFrom
  <2>4. ASSUME NEW line \in Lines
        PROVE  LoadedLine(line)
    <3> DEFINE c == line.symbol
    <3>1. c \in Codes
      BY CodesAreNames
    <3> HIDE DEF c
    <3>2. Naming(entries, c) = {} => contracts'[c] = contracts[c]
      BY <3>1, <2>1, <2>2, LookedUp
    <3>3. ASSUME Naming(entries, c) # {}
          PROVE  Expiry(line) # NoExpiry /\ contracts'[c] = Expiry(line)
      <4>1. PICK other \in Lines : NamesTimely(other, c) /\ contracts'[c] = Expiry(other)
        BY <3>1, <3>3, <2>1, <2>2, LookedUp
      <4>2. Expiry(line) = Expiry(other)
        BY <4>1, NamedAgree DEF NamesTimely, c
      <4> QED
        BY <4>1, <4>2 DEF NamesTimely
    <3>4. ASSUME identities'[c] # identities[c]
          PROVE  identities[c] = NoIdentity /\ identities'[c].expiry = Expiry(line)
      <4>1. PICK other \in Lines : c = other.symbol /\ identities'[c] = Identity(other)
        BY <3>1, <3>4, <2>3
      <4>2. Expiry(line) = Expiry(other)
        BY <4>1, NamedAgree DEF c
      <4> QED
        BY <4>1, <4>2, <3>1, <3>4, <2>3 DEF Identity
    <3>5. identities'[c] # identities[c] => Naming(entries, c) # {}
      BY <3>1, <2>3
    <3> QED
      BY <3>2, <3>3, <3>4, <3>5 DEF LoadedLine, c
  <2> QED
    BY <2>3, <2>4
<1> QED
  BY <1>1, <1>2

LEMMA LoadKeepsExpiries ==
  ASSUME ExpiriesInv, WalksStayClose, MonthsWhole, NamesAgree,
         NEW file \in Files, LoadMaster(file)
  PROVE  /\ NeverExpiresEarly' /\ LookupNeverLater' /\ RegisteredLatest' /\ RegisteredNamed'
         /\ \A line \in Lines :
               /\ CompleteFor(line)
               /\ identities[line.symbol] = NoIdentity
               /\ identities'[line.symbol] # NoIdentity
               => identities'[line.symbol].expiry = OfficialExpiry[line]
<1>1. UNCHANGED <<strict, holidays, loaded>>
  BY DEF LoadMaster, holidayVars
<1>2. /\ HolidayInv
      /\ \A line \in Lines : contracts[line.symbol] # NoExpiry
           => contracts[line.symbol] >= OfficialExpiry[line]
      /\ \A c \in Codes : identities[c] # NoIdentity => contracts[c] <= identities[c].expiry
      /\ RegisteredLatest /\ RegisteredNamed
  BY DEF ExpiriesInv, NeverExpiresEarly, LookupNeverLater
<1>3. /\ \A line \in Lines : LoadedLine(line)
      /\ \A c \in Codes : identities'[c] # identities[c] => \E line \in Lines : c = line.symbol
  BY LoadsLines
<1>4. \A line \in Lines : Expiry(line)' = Expiry(line)
  BY <1>1 DEF Expiry, Computed, CanWalk, Walked, Answers
<1>5. ASSUME NEW line \in Lines, contracts'[line.symbol] # NoExpiry
      PROVE  contracts'[line.symbol] >= OfficialExpiry[line]
  BY <1>2, <1>3, <1>5, ExpiryIsLate DEF LoadedLine
<1>6. ASSUME NEW line \in Lines, identities'[line.symbol] # NoIdentity
      PROVE  /\ Expiry(line)' # NoExpiry /\ Expiry(line)' <= identities'[line.symbol].expiry
             /\ contracts'[line.symbol] <= identities'[line.symbol].expiry
  <2>1. Expiry(line) \in Days \cup {NoExpiry} /\ Days \subseteq Int
    BY <1>2, ExpiryCases, DaysAreWhole
  <2>2. line.symbol \in Codes
    BY CodesAreNames
  <2>3. CASE identities'[line.symbol] = identities[line.symbol]
    BY <2>2, <2>3, <1>2, <1>3, <1>4, <1>6 DEF LoadedLine, RegisteredLatest
  <2>4. CASE identities'[line.symbol] # identities[line.symbol]
    <3>1. /\ Expiry(line) # NoExpiry /\ Expiry(line)' = Expiry(line)
          /\ contracts'[line.symbol] = Expiry(line)
          /\ identities'[line.symbol].expiry = Expiry(line)
      BY <2>4, <1>3, <1>4 DEF LoadedLine
    <3>2. Expiry(line) \in Int
      BY <3>1, <2>1
    <3>3. Expiry(line) <= Expiry(line)
      BY <3>2
    <3> QED
      BY <3>1, <3>3
  <2> QED
    BY <2>3, <2>4
<1>7. RegisteredNamed'
  BY <1>2, <1>3 DEF RegisteredNamed
<1>8. ASSUME NEW c \in Codes, identities'[c] # NoIdentity
      PROVE  contracts'[c] <= identities'[c].expiry
  BY <1>6, <1>7, <1>8 DEF RegisteredNamed
<1>9. ASSUME NEW line \in Lines, CompleteFor(line),
             identities[line.symbol] = NoIdentity, identities'[line.symbol] # NoIdentity
      PROVE  identities'[line.symbol].expiry = OfficialExpiry[line]
  BY <1>2, <1>3, <1>9, ExpiryIsOfficial DEF LoadedLine
<1>10. NeverExpiresEarly' /\ LookupNeverLater'
  BY <1>5, <1>8 DEF NeverExpiresEarly, LookupNeverLater
<1>11. RegisteredLatest'
  BY <1>6 DEF RegisteredLatest
<1> QED
  BY <1>7, <1>9, <1>10, <1>11

-----------------------------------------------------------------------------
\* Whatever the other processes, the file and the issue limit do, a caller is
\* handed a token that is valid or was just issued, and a manager gives up a
\* valid token only for a newer one.
THEOREM TokensStayUsable == Spec => TokensUsable
<1>1. AuthInv /\ [Next]_vars =>
        [\A m \in Managers :
           answer'[m] # answer[m] /\ answer'[m].how = "token"
              => \/ Valid(answer'[m].token)
                 \/ answer[m].how = "pending" /\ current[m] = answer'[m].token]_authVars
  BY StepIsUsable DEF Usable
<1>2. AuthInv /\ [Next]_vars =>
        [\A m \in Managers :
           /\ current'[m] # current[m]
           /\ answer'[m] # Silent
           => current'[m].at = now /\ answer'[m] = Pending]_authVars
  BY StepIsUsable DEF Kept
<1> QED
  BY <1>1, <1>2, InitAuth, NextAuth, PTL DEF Spec, TokensUsable, HandedUsable, KeepsWhatIsValid
\* On the websockets, whatever connects, closes, hangs up and arrives in
\* between: notices are decrypted with the key of their own session, the
\* execution transport keeps hold of its connection, and the price shown never
\* goes back.  TLC has one stream in use at a time; here both are.
THEOREM StreamsAreSound == Spec => StreamsSound
<1>1. Init => SocketInv
  BY InitSocket DEF Init
<1>2. ASSUME SocketInv, [Next]_vars
      PROVE  SocketInv' /\ (UNCHANGED socketVars \/ PricesMoveForward)
  <2>1. CASE UNCHANGED socketVars
    <3>1. SocketInv'
      BY <1>2, <2>1, SocketInvStutters
    <3> QED
      BY <2>1, <3>1
  <2>2. CASE SocketNext(Own \in Credentialed)
    <3>1. SocketInv' /\ (~past'.doubled => shown' >= shown)
      BY <1>2, <2>2, SocketStep
    <3> QED
      BY <3>1 DEF PricesMoveForward
  <2> QED
    BY <1>2, <2>1, <2>2 DEF Next, vars
<1>3. SocketInv' => NoticesReadable' /\ ConnectionHeld'
  BY DEF SocketInv
<1>4. SocketInv /\ [Next]_vars
        => SocketInv' /\ [NoticesReadable' /\ ConnectionHeld' /\ PricesMoveForward]_socketVars
  BY <1>2, <1>3
<1> QED
  BY <1>1, <1>4, PTL DEF Spec, StreamsSound

\* A load of the calendar that returns without an error has brought every
\* holiday of its year that lies within the pages it may ask for, of any length
\* and on any number of pages; what lies beyond is all it can be short of.
THEOREM SuccessIsComplete == Spec => SuccessMeansComplete
<1>1. Init => HolidayInv /\ PagesInv
  BY InitHoliday DEF Init
<1>2. HolidayInv /\ PagesInv /\ [Next]_vars => HolidayInv' /\ PagesInv'
  BY StepMoves, CalendarStep, CalendarPages
<1>3. HolidayInv /\ PagesInv /\ [Next]_vars =>
        [\A d \in Official :
           load.year = YearOf[d] /\ load' = Idle /\ ~error'
           => d \in holidays' \/ d > Reach(load.year)]_holidayVars
  BY StepMoves, CalendarPages DEF KnownToReach
<1> QED
  BY <1>1, <1>2, <1>3, PTL DEF Spec, SuccessMeansComplete

\* The states of the services: no test token is ever taken from the shared
\* file, the calendar knows no day the exchange does not close on, and a
\* registered identity is always of a contract whose expiry is known.
THEOREM ServicesTyped == Spec => []TypeOK
<1> DEFINE Inv == AuthInv /\ HolidayInv /\ MasterTypeOK /\ SocketInv
<1>1. Init => Inv
  BY InitAuth, InitHoliday, InitMaster, InitSocket DEF Init
<1>2. ASSUME Inv, [Next]_vars
      PROVE  Inv'
  <2>1. AuthInv'
    BY <1>2, NextAuth
  <2>2. HolidayInv'
    BY <1>2, StepMoves, CalendarStep
  <2>3. MasterTypeOK'
    <3>1. CASE UNCHANGED masterVars
      BY <3>1, <1>2 DEF masterVars, MasterTypeOK
    <3>2. CASE UNCHANGED <<contracts, identities>> /\ refused' = TRUE
      BY <3>2, <1>2 DEF MasterTypeOK
    <3>3. CASE Loads
      BY <3>3, <1>2, LoadKeepsTypes DEF Loads
    <3> QED
      BY <3>1, <3>2, <3>3, <1>2, StepMoves
  <2>4. SocketInv'
    <3>1. CASE UNCHANGED socketVars
      BY <3>1, <1>2, SocketInvStutters
    <3>2. CASE SocketNext(Own \in Credentialed)
      BY <3>2, <1>2, SocketStep
    <3> QED
      BY <3>1, <3>2, <1>2 DEF Next, vars
  <2> QED
    BY <2>1, <2>2, <2>3, <2>4
<1>3. Inv => TypeOK
  BY HolidayInvGivesTypes, SocketInvGivesTypes DEF AuthInv, TypeOK
<1> QED
  BY <1>1, <1>2, <1>3, PTL DEF Spec

\* What is not known of the calendar can only make an expiry too late, the
\* lookup is never later than the registered identity, and a calendar
\* complete up to the nominal day does not err - for the lines of any files that agree on their contracts and
\* any calendar in which a walk back from a nominal day leaves its year only
\* from the first page of a load.
THEOREM ExpiriesNeverEarly ==
  ASSUME WalksStayClose, MonthsWhole, NamesAgree
  PROVE  Spec => ExpiriesErrLate
<1>1. Init => ExpiriesInv
  <2>1. ASSUME Init
        PROVE  ExpiriesInv
    <3>1. HolidayInv /\ MasterTypeOK /\ \A c \in Codes : identities[c] = NoIdentity
      BY <2>1, InitHoliday, InitMaster DEF Init
    <3>2. FirstPageKnown
      BY <2>1 DEF Init, HolidayInit, FirstPageKnown
    <3>3. NeverExpiresEarly
      BY <2>1, CodesAreNames DEF Init, MasterInit, NeverExpiresEarly
    <3>4. LookupNeverLater /\ RegisteredLatest /\ RegisteredNamed
      BY <3>1, CodesAreNames DEF LookupNeverLater, RegisteredLatest, RegisteredNamed
    <3> QED
      BY <3>1, <3>2, <3>3, <3>4 DEF ExpiriesInv
  <2> QED
    BY <2>1
<1> DEFINE Sound == \A line \in Lines :
              /\ CompleteFor(line)
              /\ identities[line.symbol] = NoIdentity
              /\ identities'[line.symbol] # NoIdentity
              => identities'[line.symbol].expiry = OfficialExpiry[line]
<1>2. ASSUME ExpiriesInv, [Next]_vars
      PROVE  ExpiriesInv' /\ Sound
  <2>1. HolidayInv /\ FirstPageKnown /\ MasterTypeOK /\ CalendarMove
    BY <1>2, StepMoves DEF ExpiriesInv
  <2>2. HolidayInv' /\ Grows /\ FirstPageKnown'
    BY <2>1, CalendarStep, FirstPageStays
  <2>3. CASE UNCHANGED <<contracts, identities>>
    <3>1. NeverExpiresEarly' /\ LookupNeverLater' /\ RegisteredNamed'
      BY <2>3, <1>2 DEF ExpiriesInv, NeverExpiresEarly, LookupNeverLater, RegisteredNamed
    <3>2. ASSUME NEW line \in Lines, identities[line.symbol] # NoIdentity
          PROVE  Expiry(line)' # NoExpiry /\ Expiry(line)' <= identities[line.symbol].expiry
      <4>1. Expiry(line) # NoExpiry /\ Expiry(line) <= identities[line.symbol].expiry
        BY <3>2, <1>2 DEF ExpiriesInv, RegisteredLatest
      <4>2. Expiry(line)' # NoExpiry /\ Expiry(line)' <= Expiry(line)
        BY <4>1, <2>1, <2>2, ExpiryFalls
      <4>3. /\ Expiry(line) \in Days /\ Expiry(line)' \in Days
            /\ identities[line.symbol].expiry \in Days /\ Days \subseteq Int
        <5>1. Expiry(line) \in Days
          BY <4>1, <2>1, ExpiryCases
        <5>2. Expiry(line)' \in Days
          BY <4>2, <2>2, ExpiryCasesNext
        <5>3. identities[line.symbol].expiry \in Days
          BY <3>2, <2>1, CodesAreNames DEF MasterTypeOK
        <5> QED
          BY <5>1, <5>2, <5>3, DaysAreWhole
      <4> DEFINE before == Expiry(line)
                 after == Expiry(line)'
                 fixed == identities[line.symbol].expiry
      <4>4. /\ before \in Int /\ after \in Int /\ fixed \in Int
            /\ after <= before /\ before <= fixed
        BY <4>1, <4>2, <4>3
      <4> HIDE DEF before, after, fixed
      <4>5. after <= fixed
        BY <4>4
      <4> QED
        BY <4>2, <4>5 DEF after, fixed
    <3>3. RegisteredLatest'
      BY <2>3, <3>2 DEF RegisteredLatest
    <3>4. MasterTypeOK'
      BY <1>2, <2>1, <2>3, StepMoves, LoadKeepsTypes DEF MasterTypeOK, masterVars, Loads
    <3> QED
      BY <2>2, <2>3, <3>1, <3>3, <3>4 DEF ExpiriesInv
  <2>4. CASE Loads
    <3>1. PICK file \in Files : LoadMaster(file)
      BY <2>4 DEF Loads
    <3>2. MasterTypeOK'
      BY <3>1, <2>1, LoadKeepsTypes
    <3>3. NeverExpiresEarly' /\ LookupNeverLater' /\ RegisteredLatest' /\ RegisteredNamed' /\ Sound
      BY <3>1, <1>2, LoadKeepsExpiries
    <3> QED
      BY <2>2, <3>2, <3>3 DEF ExpiriesInv
  <2> QED
    BY <2>3, <2>4, <1>2, StepMoves DEF masterVars
<1>3. ExpiriesInv /\ [Next]_vars => ExpiriesInv' /\ [Sound]_masterVars
  BY <1>2
<1>4. ExpiriesInv => NeverExpiresEarly /\ LookupNeverLater
  BY DEF ExpiriesInv
<1> QED
  BY <1>1, <1>3, <1>4, PTL DEF Spec, ExpiriesErrLate, SoundWhenComplete
=============================================================================
