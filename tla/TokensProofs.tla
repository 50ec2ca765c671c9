----------------------------- MODULE TokensProofs -----------------------------
(***************************************************************************)
(* What the tokens guarantee, whatever uses them, and what the two         *)
(* components that stand on them make of it, for any number of users,      *)
(* groups and ticks: the moderation of comments (who publishes, what a     *)
(* moderator is answered) and the photo library (how long a former member  *)
(* of the family can look at it, what a sync leaves in the bucket).        *)
(*                                                                         *)
(* First the inductive invariant behind RolesRunOut, SignOutHolds and      *)
(* GrantsByModerators, kept by every step of the pool, of the browsers and *)
(* of the clock; then the specification of module Moderation; then that of *)
(* module PhotoLibrary.                                                    *)
(***************************************************************************)
EXTENDS Moderation, PhotoLibrary, TLAPS
\* A member is a member since now: the clock of a membership runs only once
\* it has ended.
MembersNow ==
    \A g \in Groups : \A u \in members[g] : since[g][u] = 0

\* A token that is not expired names a group its holder has left no longer
\* ago than the token is old.
TokensTell ==
    \A u \in Users, g \in Groups : \A t \in store[u] :
        t.age < Life /\ g \in t.groups => since[g][u] <= t.age

\* A browser that signed out has a token, or may be about to, only if it was
\* waiting for an answer as it did.
OutUnlessLate ==
    \A u \in out : store[u] # {} \/ Waits(u) => u \in late

\* Who has made a call that is under way was a moderator less than a token's life
\* ago: the clock does not move before the call has ended.
AskedByModerators ==
    \A c \in asked : since[Moderators][c.by] < Life

TokensInv ==
    TokensTypeOK /\ MembersNow /\ TokensTell /\ OutUnlessLate /\ AskedByModerators

TokensStep == Browse \/ Administer \/ Tick \/ UNCHANGED tokenVars

\* The token Cognito issues is one, new, for the groups of the moment.
LEMMA IssuedIsToken ==
    ASSUME NEW u \in Users
    PROVE  /\ Issued(u) \in Token
           /\ Issued(u).age = 0
           /\ \A g \in Groups : g \in Issued(u).groups <=> u \in members[g]
  <1>. DEFINE gs == {g \in Groups : u \in members[g]}
  <1>1. gs \in SUBSET Groups  OBVIOUS
  <1>2. 0 \in 0..Life  BY TokensAssumption
  <1>3. Issued(u) = [groups |-> gs, age |-> 0]  BY DEF Issued
  <1>. QED  BY <1>1, <1>2, <1>3 DEF Token

\* The invariant holds at first: no one is signed in.
LEMMA TokensInitInv == TokensInit => TokensInv
  <1>. SUFFICES ASSUME TokensInit PROVE TokensInv  OBVIOUS
  <1>1. TokensTypeOK
    BY TokensAssumption DEF TokensInit, TokensTypeOK, Awaited
  <1>2. MembersNow
    BY <1>1 DEF TokensInit, TokensTypeOK, MembersNow
  <1>3. TokensTell /\ OutUnlessLate /\ AskedByModerators
    BY DEF TokensInit, TokensTell, OutUnlessLate, AskedByModerators
  <1>. QED  BY <1>1, <1>2, <1>3 DEF TokensInv

\* A browser is given the token Cognito issues: signing in and the answer of a
\* refresh leave alone what the tokens tell of the groups.
LEMMA IssuingKeeps ==
    ASSUME TokensInv, NEW u \in Users,
           store' = [store EXCEPT ![u] = {Issued(u)}],
           UNCHANGED <<members, since>>
    PROVE  /\ store' \in [Users -> SUBSET Token]
           /\ MembersNow' /\ TokensTell'
  <1>. USE DEF TokensInv, TokensTypeOK
  <1>1. store' \in [Users -> SUBSET Token]  BY IssuedIsToken
  <1>2. MembersNow'  BY DEF MembersNow
  <1>3. ASSUME NEW v \in Users, NEW g \in Groups, NEW t \in store'[v],
               t.age < Life, g \in t.groups
        PROVE  since'[g][v] <= t.age
    <2>1. CASE v = u
      <3>1. t = Issued(u)  BY <2>1
      <3>2. since[g][u] = 0  BY <1>3, <3>1, IssuedIsToken DEF MembersNow
      <3>. QED  BY <2>1, <3>1, <3>2, IssuedIsToken
    <2>2. CASE v # u
      <3>1. t \in store[v]  BY <2>2
      <3>. QED  BY <1>3, <3>1 DEF TokensTell
    <2>. QED  BY <2>1, <2>2
  <1>. QED  BY <1>1, <1>2, <1>3 DEF TokensTell

\* A browser loses its tokens: so do signing out and a refresh that fails.
LEMMA ForgettingKeeps ==
    ASSUME TokensInv, NEW u \in Users,
           store' = [store EXCEPT ![u] = {}],
           UNCHANGED <<members, since>>
    PROVE  /\ store' \in [Users -> SUBSET Token]
           /\ MembersNow' /\ TokensTell'
  <1>. USE DEF TokensInv, TokensTypeOK
  <1>1. store' \in [Users -> SUBSET Token]  OBVIOUS
  <1>2. MembersNow'  BY DEF MembersNow
  <1>3. \A v \in Users : store'[v] \subseteq store[v]  OBVIOUS
  <1>4. TokensTell'  BY <1>3 DEF TokensTell
  <1>. QED  BY <1>1, <1>2, <1>4

\* A browser asks for tokens, or has its answer: nothing is said of the others.
LEMMA AwaitingKeeps ==
    ASSUME TokensInv, NEW u \in Users, NEW w,
           awaited' = [awaited EXCEPT ![u] = w], w \in Awaited
    PROVE  /\ awaited' \in [Users -> Awaited]
           /\ awaited'[u] = w
           /\ \A v \in Users \ {u} : Waits(v)' <=> Waits(v)
  BY DEF TokensInv, TokensTypeOK, Waits

\* One answer fewer to wait for.
LEMMA FewerAwaited ==
    ASSUME TokensInv, NEW u \in Users,
           \/ awaited[u].refreshes > 0 /\ awaited' = [awaited EXCEPT ![u].refreshes = @ - 1]
           \/ awaited[u].exchanges > 0 /\ awaited' = [awaited EXCEPT ![u].exchanges = @ - 1]
    PROVE  /\ awaited' \in [Users -> Awaited]
           /\ Waits(u)
           /\ \A v \in Users \ {u} : Waits(v)' <=> Waits(v)
  <1>. DEFINE r == [awaited[u] EXCEPT !.refreshes = @ - 1]
              x == [awaited[u] EXCEPT !.exchanges = @ - 1]
  <1>0. awaited[u] \in Awaited  BY DEF TokensInv, TokensTypeOK
  <1>1. CASE awaited[u].refreshes > 0 /\ awaited' = [awaited EXCEPT ![u].refreshes = @ - 1]
    <2>1. r \in Awaited  BY <1>0, <1>1, TokensAssumption DEF Awaited
    <2>2. awaited' = [awaited EXCEPT ![u] = r]  BY <1>1
    <2>. HIDE DEF r
    <2>. QED  BY <1>1, <2>1, <2>2, AwaitingKeeps DEF Waits
  <1>2. CASE awaited[u].exchanges > 0 /\ awaited' = [awaited EXCEPT ![u].exchanges = @ - 1]
    <2>1. x \in Awaited  BY <1>0, <1>2, TokensAssumption DEF Awaited
    <2>2. awaited' = [awaited EXCEPT ![u] = x]  BY <1>2
    <2>. HIDE DEF x
    <2>. QED  BY <1>2, <2>1, <2>2, AwaitingKeeps DEF Waits
  <1>. QED  BY <1>1, <1>2

\* One answer more, where there is room for it.
LEMMA MoreAwaited ==
    ASSUME TokensInv, NEW u \in Users, ~TabsBusy(u),
           \/ awaited' = [awaited EXCEPT ![u].refreshes = @ + 1]
           \/ awaited' = [awaited EXCEPT ![u].exchanges = @ + 1]
    PROVE  /\ awaited' \in [Users -> Awaited]
           /\ \A v \in Users \ {u} : Waits(v)' <=> Waits(v)
  <1>. DEFINE r == [awaited[u] EXCEPT !.refreshes = @ + 1]
              x == [awaited[u] EXCEPT !.exchanges = @ + 1]
  <1>0. awaited[u] \in Awaited  BY DEF TokensInv, TokensTypeOK
  <1>1. CASE awaited' = [awaited EXCEPT ![u].refreshes = @ + 1]
    <2>1. r \in Awaited  BY <1>0, TokensAssumption DEF Awaited, TabsBusy
    <2>2. awaited' = [awaited EXCEPT ![u] = r]  BY <1>1
    <2>. HIDE DEF r
    <2>. QED  BY <2>1, <2>2, AwaitingKeeps
  <1>2. CASE awaited' = [awaited EXCEPT ![u].exchanges = @ + 1]
    <2>1. x \in Awaited  BY <1>0, TokensAssumption DEF Awaited, TabsBusy
    <2>2. awaited' = [awaited EXCEPT ![u] = x]  BY <1>2
    <2>. HIDE DEF x
    <2>. QED  BY <2>1, <2>2, AwaitingKeeps
  <1>. QED  BY <1>1, <1>2

\* The browsers keep the invariant, however their tabs overlap.
LEMMA BrowseKeeps == TokensInv /\ Browse => TokensInv'
  <1>. SUFFICES ASSUME TokensInv, NEW u \in Users,
                       \/ StartSignIn(u) \/ FinishSignIn(u) \/ FailSignIn(u) \/ SignOut(u)
                       \/ StartRefresh(u) \/ FinishRefresh(u) \/ FailRefresh(u)
                PROVE  TokensInv'
    BY DEF Browse
  <1>. USE DEF TokensInv
  <1>0. UNCHANGED poolVars
    BY DEF StartSignIn, FinishSignIn, FailSignIn, SignOut, StartRefresh, FinishRefresh, FailRefresh
  <1>1. AskedByModerators'  BY <1>0 DEF poolVars, AskedByModerators
  <1>2. ASSUME UNCHANGED store
        PROVE  store' \in [Users -> SUBSET Token] /\ MembersNow' /\ TokensTell'
    BY <1>0, <1>2 DEF poolVars, TokensTypeOK, MembersNow, TokensTell
  <1>3. CASE StartSignIn(u)
    <2>1. /\ awaited' \in [Users -> Awaited]
          /\ \A v \in Users \ {u} : Waits(v)' <=> Waits(v)
      BY <1>3, MoreAwaited DEF StartSignIn
    <2>2. TokensTypeOK'
      BY <1>0, <1>2, <1>3, <2>1 DEF StartSignIn, poolVars, TokensTypeOK
    <2>3. OutUnlessLate'  BY <1>3, <2>1 DEF StartSignIn, TokensTypeOK, OutUnlessLate
    <2>. QED  BY <1>1, <1>2, <1>3, <2>2, <2>3 DEF StartSignIn
  <1>4. CASE FinishSignIn(u) \/ FinishRefresh(u)
    <2>1. store' \in [Users -> SUBSET Token] /\ MembersNow' /\ TokensTell'
      BY <1>0, <1>4, IssuingKeeps DEF FinishSignIn, FinishRefresh, poolVars
    <2>2. /\ awaited' \in [Users -> Awaited] /\ Waits(u)
          /\ \A v \in Users \ {u} : Waits(v)' <=> Waits(v)
      BY <1>4, FewerAwaited DEF FinishSignIn, FinishRefresh
    <2>3. TokensTypeOK'
      BY <1>0, <1>4, <2>1, <2>2 DEF FinishSignIn, FinishRefresh, poolVars, TokensTypeOK
    <2>4. OutUnlessLate'
      BY <1>4, <2>2 DEF FinishSignIn, FinishRefresh, TokensTypeOK, OutUnlessLate
    <2>. QED  BY <1>1, <2>1, <2>3, <2>4
  <1>5. CASE FailSignIn(u)
    <2>1. /\ awaited' \in [Users -> Awaited] /\ Waits(u)
          /\ \A v \in Users \ {u} : Waits(v)' <=> Waits(v)
      BY <1>5, FewerAwaited DEF FailSignIn
    <2>2. TokensTypeOK'
      BY <1>0, <1>2, <1>5, <2>1 DEF FailSignIn, poolVars, TokensTypeOK
    <2>3. OutUnlessLate'  BY <1>5, <2>1 DEF FailSignIn, TokensTypeOK, OutUnlessLate
    <2>. QED  BY <1>1, <1>2, <1>5, <2>2, <2>3 DEF FailSignIn
  <1>6. CASE SignOut(u)
    <2>1. store' \in [Users -> SUBSET Token] /\ MembersNow' /\ TokensTell'
      BY <1>0, <1>6, ForgettingKeeps DEF SignOut, poolVars
    <2>2. TokensTypeOK'  BY <1>0, <1>6, <2>1 DEF SignOut, poolVars, TokensTypeOK
    <2>3. OutUnlessLate'  BY <1>6 DEF SignOut, TokensTypeOK, OutUnlessLate, Waits
    <2>. QED  BY <1>1, <2>1, <2>2, <2>3
  <1>7. CASE StartRefresh(u)
    <2>1. /\ awaited' \in [Users -> Awaited]
          /\ \A v \in Users \ {u} : Waits(v)' <=> Waits(v)
      BY <1>7, MoreAwaited DEF StartRefresh
    <2>2. TokensTypeOK'
      BY <1>0, <1>2, <1>7, <2>1 DEF StartRefresh, poolVars, TokensTypeOK
    <2>3. OutUnlessLate'
      BY <1>7, <2>1 DEF StartRefresh, TokensTypeOK, OutUnlessLate
    <2>. QED  BY <1>1, <1>2, <1>7, <2>2, <2>3 DEF StartRefresh
  <1>8. CASE FailRefresh(u)
    <2>1. store' \in [Users -> SUBSET Token] /\ MembersNow' /\ TokensTell'
      BY <1>0, <1>8, ForgettingKeeps DEF FailRefresh, poolVars
    <2>2. /\ awaited' \in [Users -> Awaited] /\ Waits(u)
          /\ \A v \in Users \ {u} : Waits(v)' <=> Waits(v)
      BY <1>8, FewerAwaited DEF FailRefresh
    <2>3. TokensTypeOK'
      BY <1>0, <1>8, <2>1, <2>2 DEF FailRefresh, poolVars, TokensTypeOK
    <2>4. OutUnlessLate'
      BY <1>8, <2>2 DEF FailRefresh, TokensTypeOK, OutUnlessLate
    <2>. QED  BY <1>1, <2>1, <2>3, <2>4
  <1>. QED  BY <1>3, <1>4, <1>5, <1>6, <1>7, <1>8

\* A tick ages every token by one, up to its life, and a membership that has
\* ended by one at most: a token not expired stays older than that.
LEMMA TickKeeps == TokensInv /\ Tick => TokensInv'
  <1>. SUFFICES ASSUME TokensInv, Tick PROVE TokensInv'  OBVIOUS
  <1>. USE TokensAssumption DEF TokensInv
  <1>1. ASSUME NEW u \in Users, NEW s \in store'[u]
        PROVE  \E t \in store[u] :
                   /\ s \in Token /\ t \in Token
                   /\ s.groups = t.groups /\ s.age = Older(t.age, Life)
    <2>1. PICK t \in store[u] : s = [t EXCEPT !.age = Older(@, Life)]
      BY <1>1 DEF Tick
    <2>2. t \in Token  BY DEF TokensTypeOK
    <2>3. Older(t.age, Life) \in 0..Life  BY <2>2 DEF Token, Older
    <2>. QED  BY <2>1, <2>2, <2>3 DEF Token
  <1>2. ASSUME NEW g \in Groups, NEW u \in Users
        PROVE  /\ since'[g][u] \in 0..Horizon
               /\ since'[g][u] <= since[g][u] + 1
               /\ u \in members[g] => since'[g][u] = 0
    <2>1. since[g][u] \in 0..Horizon  BY DEF TokensTypeOK
    <2>2. since'[g][u] = IF u \in members[g] THEN 0 ELSE Older(since[g][u], Horizon)
      BY DEF Tick
    <2>3. since'[g][u] \in 0..Horizon /\ since'[g][u] <= since[g][u] + 1
      BY <2>1, <2>2 DEF Older
    <2>. QED  BY <2>2, <2>3
  <1>3. TokensTypeOK'
    <2>1. DOMAIN store' = Users /\ DOMAIN since' = Groups
      BY DEF Tick
    <2>2. store' = [u \in Users |-> store'[u]]
      BY DEF Tick
    <2>3. store' \in [Users -> SUBSET Token]
      BY <1>1, <2>2
    <2>4. since' \in [Groups -> [Users -> 0..Horizon]]
      <3>1. ASSUME NEW g \in Groups PROVE since'[g] \in [Users -> 0..Horizon]
        <4>1. since'[g] = [u \in Users |-> since'[g][u]]  BY DEF Tick
        <4>. QED  BY <4>1, <1>2
      <3>2. since' = [g \in Groups |-> since'[g]]  BY DEF Tick
      <3>. QED  BY <3>1, <3>2
    <2>. QED  BY <2>3, <2>4 DEF Tick, TokensTypeOK
  <1>4. MembersNow'
    BY <1>2 DEF Tick, TokensTypeOK, MembersNow
  <1>5. ASSUME NEW u \in Users, NEW g \in Groups, NEW s \in store'[u],
               s.age < Life, g \in s.groups
        PROVE  since'[g][u] <= s.age
    <2>1. PICK t \in store[u] :
              /\ s \in Token /\ t \in Token
              /\ s.groups = t.groups /\ s.age = Older(t.age, Life)
      BY <1>1
    <2>2. s.age = t.age + 1 /\ t.age < Life
      BY <1>5, <2>1 DEF Token, Older
    <2>3. since[g][u] <= t.age  BY <1>5, <2>1, <2>2 DEF TokensTell
    <2>4. since[g][u] \in Int /\ since'[g][u] \in Int /\ t.age \in Int
      BY <1>2, <2>1 DEF TokensTypeOK, Token
    <2>. QED  BY <1>2, <2>2, <2>3, <2>4
  <1>6. TokensTell'  BY <1>5 DEF TokensTell
  <1>7. OutUnlessLate' /\ AskedByModerators'
    BY <1>1 DEF Tick, OutUnlessLate, AskedByModerators, TokensTypeOK, Waits
  <1>. QED  BY <1>3, <1>4, <1>6, <1>7

\* Whoever has a role by his token was in the group less than a token's life
\* ago, and a token found after signing out came with an answer under way.
LEMMA TokensPromise == TokensInv => RolesRunOut /\ SignOutHolds
  <1>. SUFFICES ASSUME TokensInv PROVE RolesRunOut /\ SignOutHolds  OBVIOUS
  <1>1. ASSUME NEW u \in Users, NEW g \in Groups, HasRole(u, g)
        PROVE  since[g][u] < Life
    <2>1. PICK t \in store[u] : t.age < Life /\ g \in t.groups
      BY <1>1 DEF HasRole, Accepted, InGroup
    <2>2. since[g][u] <= t.age  BY <2>1 DEF TokensInv, TokensTell
    <2>3. since[g][u] \in Int /\ t.age \in Int
      BY DEF TokensInv, TokensTypeOK, Token
    <2>. QED  BY <2>1, <2>2, <2>3, TokensAssumption
  <1>2. SignOutHolds  BY DEF TokensInv, OutUnlessLate, SignOutHolds
  <1>. QED  BY <1>1, <1>2 DEF RolesRunOut

\* What a call of Cognito does to a membership and to its clock.
LEMMA ApplyEffect ==
    ASSUME TokensInv, NEW c \in asked, Apply(c)
    PROVE  /\ c \in Change
           /\ \A g \in Groups, u \in Users :
                  since'[g][u] = IF c.member /\ g = c.group /\ u = c.to THEN 0
                                 ELSE since[g][u]
           /\ \A g \in Groups :
                  members'[g] = IF g # c.group THEN members[g]
                                ELSE IF c.member THEN members[g] \cup {c.to}
                                ELSE members[g] \ {c.to}
  <1>1. c \in Change  BY DEF TokensInv, TokensTypeOK
  <1>2. c.group \in Groups /\ c.to \in Users  BY <1>1 DEF Change
  <1>3. members' = [members EXCEPT ![c.group] = IF c.member THEN @ \cup {c.to} ELSE @ \ {c.to}]
    BY DEF Apply
  <1>4. since' = IF c.member THEN [since EXCEPT ![c.group] = [@ EXCEPT ![c.to] = 0]] ELSE since
    BY DEF Apply
  <1>5. ASSUME NEW g \in Groups, NEW u \in Users
        PROVE  since'[g][u] = IF c.member /\ g = c.group /\ u = c.to THEN 0 ELSE since[g][u]
    <2>1. CASE c.member /\ g = c.group
      BY <1>2, <1>4, <2>1 DEF TokensInv, TokensTypeOK
    <2>2. CASE ~(c.member /\ g = c.group)
      BY <1>2, <1>4, <2>2 DEF TokensInv, TokensTypeOK
    <2>. QED  BY <2>1, <2>2
  <1>. QED  BY <1>1, <1>2, <1>3, <1>5 DEF TokensInv, TokensTypeOK

\* The calls keep the invariant: who is made a member is one since now, and who
\* is removed was one until now.
LEMMA AdministerKeeps == TokensInv /\ Administer => TokensInv'
  <1>. SUFFICES ASSUME TokensInv, Administer PROVE TokensInv'  OBVIOUS
  <1>. USE TokensAssumption
  <1>1. ASSUME NEW m \in Users, NEW u \in Users, NEW g \in Groups, NEW member \in BOOLEAN,
               Ask(m, u, g, member)
        PROVE  TokensInv'
    <2>. DEFINE c == [by |-> m, to |-> u, group |-> g, member |-> member]
    <2>1. c \in Change /\ c.by = m  BY DEF Change
    <2>2. asked' = asked \cup {c}  BY <1>1 DEF Ask
    <2>. HIDE DEF c
    <2>3. since[Moderators][m] < Life
      BY <1>1, TokensPromise DEF Ask, RolesRunOut
    <2>. USE DEF TokensInv
    <2>4. TokensTypeOK'  BY <1>1, <2>1, <2>2 DEF Ask, TokensTypeOK
    <2>5. MembersNow' /\ TokensTell' /\ OutUnlessLate'
      BY <1>1 DEF Ask, MembersNow, TokensTell, OutUnlessLate, Waits
    <2>6. AskedByModerators'  BY <1>1, <2>1, <2>2, <2>3 DEF Ask, AskedByModerators
    <2>. QED  BY <2>4, <2>5, <2>6
  <1>2. ASSUME NEW c \in asked, Apply(c) PROVE TokensInv'
    <2>1. \A h \in Groups, v \in Users :
             since'[h][v] = IF c.member /\ h = c.group /\ v = c.to THEN 0 ELSE since[h][v]
      BY <1>2, ApplyEffect
    <2>2. \A h \in Groups :
             members'[h] = IF h # c.group THEN members[h]
                           ELSE IF c.member THEN members[h] \cup {c.to} ELSE members[h] \ {c.to}
      BY <1>2, ApplyEffect
    <2>. USE DEF TokensInv
    <2>3. c \in Change  BY DEF TokensTypeOK
    <2>4. TokensTypeOK'
      <3>1. members' \in [Groups -> SUBSET Users]
        BY <1>2, <2>3 DEF Apply, TokensTypeOK, Change
      <3>2. since' \in [Groups -> [Users -> 0..Horizon]]
        <4>1. CASE c.member
          <5>1. since' = [since EXCEPT ![c.group] = [@ EXCEPT ![c.to] = 0]]
            BY <1>2, <4>1 DEF Apply
          <5>. QED  BY <2>3, <5>1 DEF TokensTypeOK, Change
        <4>2. CASE ~c.member  BY <1>2, <4>2 DEF Apply, TokensTypeOK
        <4>. QED  BY <4>1, <4>2
      <3>. QED  BY <1>2, <3>1, <3>2 DEF Apply, TokensTypeOK
    <2>5. MembersNow'
      <3>. SUFFICES ASSUME NEW h \in Groups, NEW v \in members'[h]
                    PROVE  since'[h][v] = 0
        BY DEF MembersNow
      <3>1. v \in Users  BY <2>4 DEF TokensTypeOK
      <3>2. v \in members[h] \/ (c.member /\ h = c.group /\ v = c.to)
        BY <2>2, <3>1
      <3>. QED  BY <2>1, <3>1, <3>2 DEF MembersNow
    <2>6. TokensTell'
      <3>. SUFFICES ASSUME NEW v \in Users, NEW h \in Groups, NEW t \in store[v],
                           t.age < Life, h \in t.groups
                    PROVE  since'[h][v] <= t.age
        BY <1>2 DEF Apply, TokensTell
      <3>1. t.age \in Nat  BY DEF TokensTypeOK, Token
      <3>2. since[h][v] <= t.age  BY DEF TokensTell
      <3>. QED  BY <2>1, <3>1, <3>2
    <2>7. OutUnlessLate'  BY <1>2 DEF Apply, OutUnlessLate, Waits
    <2>8. AskedByModerators'
      <3>. SUFFICES ASSUME NEW d \in asked PROVE since'[Moderators][d.by] < Life
        BY <1>2 DEF Apply, AskedByModerators
      <3>1. since[Moderators][d.by] < Life /\ d.by \in Users
        BY DEF AskedByModerators, TokensTypeOK, Change
      <3>. QED  BY <2>1, <3>1
    <2>. QED  BY <2>4, <2>5, <2>6, <2>7, <2>8
  <1>3. ASSUME NEW c \in asked, Refuse(c) PROVE TokensInv'
    BY <1>3 DEF Refuse, TokensInv, TokensTypeOK, MembersNow, TokensTell, OutUnlessLate, AskedByModerators,
                Waits
  <1>. QED  BY <1>1, <1>2, <1>3 DEF Administer

\* Browsers and moderators never make a membership end longer ago.
LEMMA SinceOnlyResets ==
    ASSUME TokensInv, Browse \/ Administer, NEW g \in Groups, NEW u \in Users
    PROVE  since'[g][u] \in {0, since[g][u]}
  <1>1. CASE Browse
    BY <1>1 DEF Browse, StartSignIn, FinishSignIn, FailSignIn, SignOut, StartRefresh,
                FinishRefresh, FailRefresh, poolVars
  <1>2. ASSUME NEW c \in asked, Apply(c)
        PROVE  since'[g][u] \in {0, since[g][u]}
    BY <1>2, ApplyEffect
  <1>. QED  BY <1>1, <1>2 DEF Administer, Ask, Refuse

\* Every step the tokens can take keeps the invariant.
LEMMA TokensStepKeeps == TokensInv /\ TokensStep => TokensInv'
  <1>. SUFFICES ASSUME TokensInv, UNCHANGED tokenVars PROVE TokensInv'
    BY BrowseKeeps, AdministerKeeps, TickKeeps DEF TokensStep
  <1>. QED
    BY DEF tokenVars, TokensInv, TokensTypeOK, MembersNow, TokensTell, OutUnlessLate,
           AskedByModerators, Waits

\* Of all these steps only a call of Cognito makes a member, and the one who asked
\* for it was a moderator less than a token's life ago.
LEMMA TokensStepGrants ==
    ASSUME TokensInv, TokensStep, NEW g \in Groups, NEW u \in members'[g] \ members[g]
    PROVE  \E c \in asked :
              /\ c.to = u /\ c.group = g /\ c.member
              /\ since[Moderators][c.by] < Life
  <1>1. members' # members  OBVIOUS
  <1>2. ~Browse /\ ~Tick /\ ~UNCHANGED tokenVars
    BY <1>1 DEF Browse, StartSignIn, FinishSignIn, FailSignIn, SignOut, StartRefresh,
                FinishRefresh, FailRefresh, Tick, tokenVars, poolVars
  <1>3. PICK c \in asked : Apply(c)
    BY <1>1, <1>2 DEF TokensStep, Administer, Ask, Refuse
  <1>4. TokensInv'  BY TokensStepKeeps
  <1>5. u \in Users  BY <1>4 DEF TokensInv, TokensTypeOK
  <1>6. members'[g] = IF g # c.group THEN members[g]
                      ELSE IF c.member THEN members[g] \cup {c.to} ELSE members[g] \ {c.to}
    BY <1>3, ApplyEffect
  <1>7. c.to = u /\ c.group = g /\ c.member  BY <1>6
  <1>. QED  BY <1>7 DEF TokensInv, AskedByModerators

-----------------------------------------------------------------------------
(* The moderation of comments. *)
\* A decision under way is about a comment that was posted, and the row it read
\* is one.
AboutComments ==
    \A r \in Requests : request[r].at # "idle" =>
        /\ comment[request[r].of] \in Rows
        /\ request[r].read \in Rows

\* Who decides was a moderator less than a token's life ago: the clock does not
\* move while a request is under way.
DecidedByModerators ==
    \A r \in Requests :
        request[r].at # "idle" => since[Moderators][request[r].by] < Life

\* The row is still the one read as long as no other decision was committed.
ReadIsRow ==
    \A r \in Requests :
        request[r].at = "loaded" /\ ~request[r].crossed
            => comment[request[r].of] = request[r].read

ModerationInv ==
    /\ TypeOK /\ TokensInv
    /\ AboutComments /\ DecidedByModerators /\ ReadIsRow /\ AnsweredAsDecided

\* A request is idle or has its locals.
LEMMA RequestShape ==
    ASSUME TypeOK, NEW r \in Requests
    PROVE  \/ request[r] = Idle
           \/ /\ request[r] \in Busy
              /\ request[r].at \in {"loaded", "committed"}
              /\ request[r].by \in Users /\ request[r].of \in Comments
              /\ request[r].decision \in Decisions
              /\ request[r].read \in Rows /\ request[r].crossed \in BOOLEAN
  BY DEF TypeOK, Busy

\* No row is the absence of one.
LEMMA NoCommentIsNoRow == NoComment \notin Rows
  BY DEF NoComment, Rows, Decisions

\* The row a commit leaves: the decision's, if the row is still the one read;
\* in any case a row.
LEMMA UpdatedRow ==
    ASSUME NEW row \in Rows, NEW read \in Rows, NEW new \in Rows
    PROVE  /\ Updated(row, read, new) \in Rows
           /\ row = read => Updated(row, read, new) = new
  <1>. DEFINE u == Updated(row, read, new)
  <1>1. DOMAIN row = {"status", "moderatedBy"}  BY DEF Rows
  <1>2. u = [k \in {"status", "moderatedBy"} |->
                IF new[k] # read[k] THEN new[k] ELSE row[k]]
    BY <1>1 DEF Updated
  <1>3. u = [status |-> IF new.status # read.status THEN new.status ELSE row.status,
             moderatedBy |-> IF new.moderatedBy # read.moderatedBy
                             THEN new.moderatedBy ELSE row.moderatedBy]
    BY <1>2
  <1>4. u \in Rows  BY <1>3 DEF Rows
  <1>5. ASSUME row = read PROVE u = new
    <2>1. new = [status |-> new.status, moderatedBy |-> new.moderatedBy]
      BY DEF Rows
    <2>. QED  BY <1>3, <1>5, <2>1
  <1>. QED  BY <1>4, <1>5

\* Before any request the invariant holds.
LEMMA ModerationInitInv == Init => ModerationInv
  <1>. SUFFICES ASSUME Init PROVE ModerationInv  OBVIOUS
  <1>1. TokensInv  BY TokensInitInv DEF Init
  <1>2. TypeOK  BY <1>1 DEF Init, TypeOK, TokensInv
  <1>3. \A r \in Requests : request[r].at = "idle"  BY DEF Init, Idle
  <1>. QED
    BY <1>1, <1>2, <1>3
    DEF ModerationInv, AboutComments, DecidedByModerators, ReadIsRow, AnsweredAsDecided

\* While the pool and the browsers move, the requests stay as they are.
LEMMA ModerationTokenStepKeeps ==
    ModerationInv /\ (Browse \/ Administer) /\ UNCHANGED <<comment, request>>
        => ModerationInv'
  <1>. SUFFICES ASSUME ModerationInv, Browse \/ Administer, UNCHANGED <<comment, request>>
                PROVE  ModerationInv'
    OBVIOUS
  <1>. USE DEF ModerationInv
  <1>1. TokensInv'  BY TokensStepKeeps DEF TokensStep
  <1>2. TypeOK'  BY <1>1 DEF TypeOK, TokensInv
  <1>3. DecidedByModerators'
    <2>. SUFFICES ASSUME NEW r \in Requests, request[r].at # "idle"
                  PROVE  since'[Moderators][request[r].by] < Life
      BY DEF DecidedByModerators
    <2>1. request[r].by \in Users  BY RequestShape DEF Idle
    <2>2. since[Moderators][request[r].by] < Life  BY DEF DecidedByModerators
    <2>3. since'[Moderators][request[r].by] \in {0, since[Moderators][request[r].by]}
      BY <2>1, SinceOnlyResets, TokensAssumption
    <2>. QED  BY <2>2, <2>3, TokensAssumption
  <1>4. AboutComments' /\ ReadIsRow' /\ AnsweredAsDecided'
    BY DEF AboutComments, ReadIsRow, AnsweredAsDecided
  <1>. QED  BY <1>1, <1>2, <1>3, <1>4

\* The clock moves while no request is under way.
LEMMA ModerationPassKeeps == ModerationInv /\ Pass => ModerationInv'
  <1>. SUFFICES ASSUME ModerationInv, Pass PROVE ModerationInv'  OBVIOUS
  <1>. USE DEF ModerationInv
  <1>1. TokensInv'  BY TokensStepKeeps DEF TokensStep, Pass
  <1>2. TypeOK'  BY <1>1 DEF TypeOK, TokensInv, Pass
  <1>3. \A r \in Requests : request'[r].at = "idle"  BY DEF Pass, Idle
  <1>. QED
    BY <1>1, <1>2, <1>3
    DEF AboutComments, DecidedByModerators, ReadIsRow, AnsweredAsDecided

\* A comment is posted where there was none, so no request is about it.
LEMMA PostKeeps ==
    ASSUME ModerationInv, NEW u \in Users, NEW c \in Comments, Post(u, c)
    PROVE  ModerationInv'
  <1>. USE DEF ModerationInv
  <1>1. TokensInv'  BY TokensStepKeeps DEF TokensStep, Post
  <1>2. NewComment \in Rows  BY DEF NewComment, Rows
  <1>3. TypeOK'  BY <1>1, <1>2 DEF TypeOK, TokensInv, Post
  <1>4. ASSUME NEW r \in Requests, request[r].at # "idle"
        PROVE  request[r].of # c /\ comment'[request[r].of] = comment[request[r].of]
    <2>1. comment[request[r].of] \in Rows /\ request[r].of \in Comments
      BY <1>4, RequestShape DEF AboutComments, Idle
    <2>2. request[r].of # c  BY <2>1, NoCommentIsNoRow DEF Post
    <2>. QED  BY <2>1, <2>2 DEF Post, TypeOK
  <1>5. UNCHANGED <<request, since>>  BY DEF Post, tokenVars
  <1>6. AboutComments' /\ DecidedByModerators'
    BY <1>4, <1>5 DEF AboutComments, DecidedByModerators
  <1>7. ReadIsRow' /\ AnsweredAsDecided'
    BY <1>4, <1>5 DEF ReadIsRow, AnsweredAsDecided
  <1>. QED  BY <1>1, <1>3, <1>6, <1>7

\* A request begins with the row as it is and a role that is still good.
LEMMA LoadKeeps ==
    ASSUME ModerationInv, NEW r \in Requests, NEW u \in Users, NEW c \in Comments,
           NEW d \in Decisions, Load(r, u, c, d)
    PROVE  ModerationInv'
  <1>. USE DEF ModerationInv
  <1>. DEFINE q == [at |-> "loaded", by |-> u, of |-> c, decision |-> d,
                    read |-> comment[c], crossed |-> FALSE]
  <1>1. /\ request' = [request EXCEPT ![r] = q]
        /\ UNCHANGED comment /\ UNCHANGED tokenVars
    BY DEF Load
  <1>2. TokensInv'  BY <1>1, TokensStepKeeps DEF TokensStep
  <1>3. comment[c] \in Rows  BY DEF Load, TypeOK
  <1>4. since[Moderators][u] < Life
    BY TokensPromise, TokensAssumption DEF Load, RolesRunOut
  <1>5. q \in Busy  BY <1>3 DEF Busy
  <1>6. TypeOK'  BY <1>1, <1>2, <1>5 DEF TypeOK, TokensInv
  <1>7. \A s \in Requests : request'[s] = IF s = r THEN q ELSE request[s]
    BY <1>1 DEF TypeOK
  <1>8. UNCHANGED since  BY <1>1 DEF tokenVars
  <1>9. AboutComments' /\ DecidedByModerators'
    BY <1>1, <1>3, <1>4, <1>7, <1>8 DEF AboutComments, DecidedByModerators
  <1>10. ReadIsRow' /\ AnsweredAsDecided'
    BY <1>1, <1>7 DEF ReadIsRow, AnsweredAsDecided
  <1>. QED  BY <1>2, <1>6, <1>9, <1>10

\* What a commit leaves: the row of its decision if nobody crossed it, and the
\* other requests about that comment crossed.
LEMMA CommitEffect ==
    ASSUME ModerationInv, NEW r \in Requests, Commit(r)
    PROVE  /\ request[r].of \in Comments
           /\ comment'[request[r].of] \in Rows
           /\ \A c \in Comments : c # request[r].of => comment'[c] = comment[c]
           /\ comment' \in [Comments -> Rows \cup {NoComment}]
           /\ ~request[r].crossed => comment'[request[r].of] =
                  [status |-> request[r].decision, moderatedBy |-> request[r].by]
  <1>. DEFINE q == request[r]
              new == [status |-> q.decision, moderatedBy |-> q.by]
  <1>. USE DEF ModerationInv
  <1>1. q.at = "loaded"  BY DEF Commit
  <1>2. q \in Busy /\ q.by \in Users /\ q.of \in Comments /\ q.decision \in Decisions
    BY <1>1, RequestShape DEF Idle
  <1>3. new \in Rows  BY <1>2 DEF Rows
  <1>4. comment[q.of] \in Rows /\ q.read \in Rows  BY <1>1 DEF AboutComments
  <1>5. /\ Updated(comment[q.of], q.read, new) \in Rows
        /\ comment[q.of] = q.read => Updated(comment[q.of], q.read, new) = new
    BY <1>3, <1>4, UpdatedRow
  <1>6. comment' = [comment EXCEPT ![q.of] = Updated(comment[q.of], q.read, new)]
    BY DEF Commit
  <1>7. comment'[q.of] = Updated(comment[q.of], q.read, new)
    BY <1>2, <1>6 DEF TypeOK
  <1>8. ~q.crossed => comment[q.of] = q.read  BY <1>1 DEF ReadIsRow
  <1>. HIDE DEF new
  <1>9. comment' \in [Comments -> Rows \cup {NoComment}]
    BY <1>5, <1>6, <1>2 DEF TypeOK
  <1>10. \A c \in Comments : c # q.of => comment'[c] = comment[c]
    BY <1>6 DEF TypeOK
  <1>. QED  BY <1>2, <1>5, <1>7, <1>8, <1>9, <1>10 DEF new

\* A commit keeps the invariant: it crosses every other request whose row it
\* may have changed.
LEMMA CommitKeeps ==
    ASSUME ModerationInv, NEW r \in Requests, Commit(r)
    PROVE  ModerationInv'
  <1>. USE DEF ModerationInv
  <1>1. request[r].at = "loaded" /\ UNCHANGED tokenVars  BY DEF Commit
  <1>2. TokensInv'  BY <1>1, TokensStepKeeps DEF TokensStep
  <1>3. ASSUME NEW s \in Requests
        PROVE  request'[s] =
                   IF s = r THEN [request[r] EXCEPT !.at = "committed"]
                   ELSE IF request[s].at # "idle" /\ request[s].of = request[r].of
                        THEN [request[s] EXCEPT !.crossed = TRUE]
                   ELSE request[s]
    BY DEF Commit
  <1>4. ASSUME NEW s \in Requests, request'[s].at # "idle"
        PROVE  /\ request'[s] \in Busy /\ request[s].at # "idle"
               /\ request'[s].by = request[s].by /\ request'[s].of = request[s].of
               /\ request'[s].of \in Comments
               /\ request'[s].decision = request[s].decision
               /\ request'[s].read = request[s].read
               /\ s # r => request'[s].at = request[s].at
               /\ s # r /\ ~request'[s].crossed =>
                      request[s].of # request[r].of /\ ~request[s].crossed
               /\ s = r => /\ request'[s].at = "committed"
                           /\ request'[s].crossed = request[s].crossed
    <2>1. request[s].at # "idle"  BY <1>1, <1>3, <1>4
    <2>2. request[s] \in Busy  BY <2>1, RequestShape DEF Idle
    <2>3. CASE s = r
      BY <1>1, <1>3, <2>1, <2>2, <2>3 DEF Busy
    <2>4. CASE s # r /\ request[s].of = request[r].of
      <3>1. request'[s] = [request[s] EXCEPT !.crossed = TRUE]  BY <1>3, <2>1, <2>4
      <3>. QED  BY <2>1, <2>2, <2>4, <3>1 DEF Busy
    <2>5. CASE s # r /\ request[s].of # request[r].of
      <3>1. request'[s] = request[s]  BY <1>3, <2>5
      <3>2. ~request'[s].crossed => ~request[s].crossed  BY <3>1
      <3>3. request[s].of \in Comments  BY <2>2 DEF Busy
      <3>. QED  BY <2>1, <2>2, <2>5, <3>1, <3>2, <3>3
    <2>. QED  BY <2>3, <2>4, <2>5
  <1>5. TypeOK'
    <2>1. \A s \in Requests : request'[s] \in Busy \cup {Idle}
      <3>. SUFFICES ASSUME NEW s \in Requests, request'[s].at = "idle"
                    PROVE  request'[s] = Idle
        BY <1>4
      <3>1. request[s] \in Busy => request'[s].at # "idle"  BY <1>3 DEF Busy
      <3>2. request[s] = Idle  BY <3>1, RequestShape
      <3>3. s # r  BY <1>1, <3>2 DEF Idle
      <3>. QED  BY <1>3, <3>2, <3>3 DEF Idle
    <2>2. request' = [s \in Requests |-> request'[s]]  BY DEF Commit
    <2>3. request' \in [Requests -> Busy \cup {Idle}]  BY <2>1, <2>2
    <2>. QED  BY <1>2, <2>3, CommitEffect DEF TypeOK, TokensInv
  <1>6. UNCHANGED since  BY <1>1 DEF tokenVars
  <1>7. AboutComments'
    <2>. SUFFICES ASSUME NEW s \in Requests, request'[s].at # "idle"
                  PROVE  comment'[request'[s].of] \in Rows /\ request'[s].read \in Rows
      BY DEF AboutComments
    <2>1. comment[request[s].of] \in Rows /\ request[s].read \in Rows
      BY <1>4 DEF AboutComments
    <2>2. CASE request[s].of = request[r].of  BY <1>4, <2>1, <2>2, CommitEffect
    <2>3. CASE request[s].of # request[r].of
      <3>1. comment'[request'[s].of] = comment[request[s].of]
        BY <1>4, <2>3, CommitEffect
      <3>. QED  BY <1>4, <2>1, <3>1
    <2>. QED  BY <2>2, <2>3
  <1>8. DecidedByModerators'
    BY <1>4, <1>6 DEF DecidedByModerators
  <1>9. ReadIsRow'
    <2>. SUFFICES ASSUME NEW s \in Requests,
                         request'[s].at = "loaded", ~request'[s].crossed
                  PROVE  comment'[request'[s].of] = request'[s].read
      BY DEF ReadIsRow
    <2>1. s # r /\ request[s].of # request[r].of /\ ~request[s].crossed
      BY <1>4
    <2>2. request[s].at = "loaded" /\ comment[request[s].of] = request[s].read
      BY <1>4, <2>1 DEF ReadIsRow
    <2>. QED  BY <1>4, <2>1, <2>2, CommitEffect
  <1>10. AnsweredAsDecided'
    <2>. SUFFICES ASSUME NEW s \in Requests,
                         request'[s].at = "committed", ~request'[s].crossed
                  PROVE  comment'[request'[s].of].status = request'[s].decision
      BY DEF AnsweredAsDecided
    <2>1. CASE s = r
      <3>1. ~request[r].crossed /\ request'[r].of = request[r].of
            /\ request'[r].decision = request[r].decision
        BY <1>4, <2>1
      <3>2. comment'[request[r].of] =
                [status |-> request[r].decision, moderatedBy |-> request[r].by]
        BY <3>1, CommitEffect
      <3>. QED  BY <2>1, <3>1, <3>2
    <2>2. CASE s # r
      <3>1. request[s].at = "committed" /\ request[s].of # request[r].of
            /\ ~request[s].crossed
        BY <1>4, <2>2
      <3>2. comment[request[s].of].status = request[s].decision
        BY <3>1 DEF AnsweredAsDecided
      <3>. QED  BY <1>4, <3>1, <3>2, CommitEffect
    <2>. QED  BY <2>1, <2>2
  <1>. QED  BY <1>2, <1>5, <1>7, <1>8, <1>9, <1>10

\* An answer ends its request and changes nothing else.
LEMMA AnswerKeeps ==
    ASSUME ModerationInv, NEW r \in Requests, Answer(r)
    PROVE  ModerationInv'
  <1>. USE DEF ModerationInv
  <1>1. UNCHANGED comment /\ UNCHANGED tokenVars  BY DEF Answer
  <1>2. TokensInv'  BY <1>1, TokensStepKeeps DEF TokensStep
  <1>3. TypeOK'  BY <1>1, <1>2 DEF Answer, TypeOK, TokensInv
  <1>4. \A s \in Requests :
            request'[s] = request[s] \/ request'[s].at = "idle"
    BY DEF Answer, TypeOK, Idle
  <1>5. UNCHANGED since  BY <1>1 DEF tokenVars
  <1>6. AboutComments' /\ DecidedByModerators'
    BY <1>1, <1>4, <1>5 DEF AboutComments, DecidedByModerators
  <1>7. ReadIsRow' /\ AnsweredAsDecided'
    BY <1>1, <1>4 DEF ReadIsRow, AnsweredAsDecided
  <1>. QED  BY <1>2, <1>3, <1>6, <1>7

\* The invariant is inductive.
LEMMA ModerationNextKeeps == ModerationInv /\ [Next]_vars => ModerationInv'
  <1>. SUFFICES ASSUME ModerationInv, [Next]_vars PROVE ModerationInv'  OBVIOUS
  <1>1. CASE UNCHANGED vars
    <2>1. UNCHANGED tokenVars  BY <1>1 DEF vars, tokenVars
    <2>2. TokensInv'  BY <2>1, TokensStepKeeps DEF TokensStep, ModerationInv
    <2>3. TypeOK'  BY <1>1, <2>2 DEF vars, TypeOK, ModerationInv, TokensInv
    <2>. QED
      BY <1>1, <2>2, <2>3
      DEF vars, ModerationInv, AboutComments, DecidedByModerators, ReadIsRow,
          AnsweredAsDecided
  <1>2. CASE (Browse \/ Administer) /\ UNCHANGED <<comment, request>>
    BY <1>2, ModerationTokenStepKeeps
  <1>3. CASE \E u \in Users, c \in Comments : Post(u, c)
    BY <1>3, PostKeeps
  <1>4. CASE Moderate
    BY <1>4, LoadKeeps, CommitKeeps, AnswerKeeps DEF Moderate
  <1>5. CASE Pass
    BY <1>5, ModerationPassKeeps
  <1>. QED  BY <1>1, <1>2, <1>3, <1>4, <1>5 DEF Next

\* So it always holds.
LEMMA ModerationAlways == Spec => []ModerationInv
  <1>. QED  BY ModerationInitInv, ModerationNextKeeps, PTL DEF Spec

-----------------------------------------------------------------------------

\* The pool, the tokens, the comments and the requests are well typed.
THEOREM ModerationTypes == Spec => []TypeOK
  <1>1. ModerationInv => TypeOK  BY DEF ModerationInv
  <1>. QED  BY <1>1, ModerationAlways, PTL

\* Whoever passes the API's check of a role was in the group less than the life
\* of a token ago, whatever was granted and revoked since.
THEOREM ModerationRolesRunOut == Spec => []RolesRunOut
  <1>1. ModerationInv => RolesRunOut  BY TokensPromise DEF ModerationInv
  <1>. QED  BY <1>1, ModerationAlways, PTL

\* A browser that signed out has a token again only if one of its refreshes was
\* under way as it did.
THEOREM ModerationSignOutHolds == Spec => []SignOutHolds
  <1>1. ModerationInv => SignOutHolds  BY TokensPromise DEF ModerationInv
  <1>. QED  BY <1>1, ModerationAlways, PTL

\* A moderator is answered with his own decision, unless another one about the
\* same comment was committed while he waited.
THEOREM ModerationAnswers == Spec => []AnsweredAsDecided
  <1>1. ModerationInv => AnsweredAsDecided  BY DEF ModerationInv
  <1>. QED  BY <1>1, ModerationAlways, PTL

\* Whoever enters a group is let in by a call that a moderator of less than a
\* token's life ago has made.
THEOREM ModerationGrants == Spec => GrantsByModerators
  <1>. DEFINE A == \A g \in Groups : \A u \in members'[g] \ members[g] :
                       \E c \in asked :
                           /\ c.to = u /\ c.group = g /\ c.member
                           /\ since[Moderators][c.by] < Life
  <1>1. ModerationInv /\ [Next]_vars => [A]_tokenVars
    <2>. SUFFICES ASSUME ModerationInv, Next PROVE A
      BY DEF vars, tokenVars
    <2>1. TokensStep
      BY DEF Next, TokensStep, Moderate, Post, Load, Commit, Answer, Pass
    <2>. QED  BY <2>1, TokensStepGrants DEF ModerationInv
  <1>. QED  BY <1>1, ModerationAlways, PTL DEF Spec, GrantsByModerators

\* A comment appears on the site at no other step than the commit of the
\* approval of somebody who was a moderator less than a token's life ago.
THEOREM ModerationPublishes == Spec => PublishedByModerators
  <1>. DEFINE A == \A c \in Visible' \ Visible :
                       \E r \in Requests :
                           /\ request[r].at = "loaded" /\ request'[r].at = "committed"
                           /\ request[r].of = c /\ request[r].decision = "approved"
                           /\ since[Moderators][request[r].by] < Life
  <1>1. ModerationInv /\ [Next]_vars => [A]_vars
    <2>. SUFFICES ASSUME ModerationInv, Next, NEW c \in Visible' \ Visible
                  PROVE  \E r \in Requests :
                             /\ request[r].at = "loaded" /\ request'[r].at = "committed"
                             /\ request[r].of = c /\ request[r].decision = "approved"
                             /\ since[Moderators][request[r].by] < Life
      OBVIOUS
    <2>1. /\ c \in Comments /\ comment'[c].status = "approved"
          /\ comment[c].status # "approved"
      BY DEF Visible
    <2>2. ~UNCHANGED comment  BY <2>1
    <2>3. ~(\E u \in Users, d \in Comments : Post(u, d))
      <3>. SUFFICES ASSUME NEW u \in Users, NEW d \in Comments, Post(u, d)
                    PROVE  FALSE
        OBVIOUS
      <3>1. comment'[c] = IF c = d THEN NewComment ELSE comment[c]
        BY <2>1 DEF Post, ModerationInv, TypeOK
      <3>. QED  BY <2>1, <3>1 DEF NewComment
    <2>4. PICK r \in Requests : Commit(r)
      BY <2>2, <2>3 DEF Next, Moderate, Load, Answer, Pass
    <2>5. request[r].at = "loaded" /\ request'[r].at = "committed"
      <3>1. request[r].at = "loaded"  BY <2>4 DEF Commit
      <3>2. request[r] \in Busy  BY <3>1, RequestShape DEF ModerationInv, Idle
      <3>3. request'[r] = [request[r] EXCEPT !.at = "committed"]  BY <2>4 DEF Commit
      <3>. QED  BY <3>1, <3>2, <3>3 DEF Busy
    <2>6. request[r].of = c
      BY <2>1, <2>4, CommitEffect
    <2>7. request[r].decision = "approved"
      <3>. DEFINE q == request[r]
                  new == [status |-> q.decision, moderatedBy |-> q.by]
      <3>1. comment[c] \in Rows  BY <2>5, <2>6 DEF ModerationInv, AboutComments
      <3>2. comment'[c] = Updated(comment[c], q.read, new)
        BY <2>1, <2>4, <2>6 DEF Commit, ModerationInv, TypeOK
      <3>3. comment'[c].status \in {new.status, comment[c].status}
        BY <3>1, <3>2 DEF Updated, Rows
      <3>. QED  BY <2>1, <3>3
    <2>8. since[Moderators][request[r].by] < Life
      BY <2>5 DEF ModerationInv, DecidedByModerators
    <2>. QED  BY <2>5, <2>6, <2>7, <2>8
  <1>. QED  BY <1>1, ModerationAlways, PTL DEF Spec, PublishedByModerators

\* What a commit leaves is its own decision, name and status both, unless
\* another was committed between its read and its write.
THEOREM ModerationWhole == Spec => DecisionsWhole
  <1>. DEFINE A == \A r \in Requests :
                       request[r].at = "loaded" /\ request'[r].at = "committed" =>
                       LET row == comment'[request[r].of] IN
                       \/ row = [status |-> request[r].decision,
                                 moderatedBy |-> request[r].by]
                       \/ request[r].crossed
  <1>1. ModerationInv /\ [Next]_vars => [A]_vars
    <2>. SUFFICES ASSUME ModerationInv, Next, NEW r \in Requests,
                         request[r].at = "loaded", request'[r].at = "committed",
                         ~request[r].crossed
                  PROVE  comment'[request[r].of] =
                             [status |-> request[r].decision, moderatedBy |-> request[r].by]
      OBVIOUS
    <2>1. request'[r] # request[r]  OBVIOUS
    <2>2. Moderate
      BY <2>1 DEF Next, Post, Pass
    <2>3. ASSUME NEW s \in Requests, s # r, Commit(s)
          PROVE  FALSE
      <3>1. request[r] \in Busy  BY RequestShape DEF ModerationInv, Idle
      <3>2. request'[r].at = request[r].at
        BY <2>3, <3>1 DEF Commit, Busy
      <3>. QED  BY <3>2
    <2>4. ASSUME NEW s \in Requests, NEW u \in Users, NEW c \in Comments,
                 NEW d \in Decisions, Load(s, u, c, d)
          PROVE  FALSE
      BY <2>4, <2>1 DEF Load, ModerationInv, TypeOK, Idle
    <2>5. ASSUME NEW s \in Requests, Answer(s)
          PROVE  FALSE
      BY <2>5, <2>1 DEF Answer, ModerationInv, TypeOK, Idle
    <2>6. Commit(r)  BY <2>2, <2>3, <2>4, <2>5 DEF Moderate
    <2>. QED  BY <2>6, CommitEffect
  <1>. QED  BY <1>1, ModerationAlways, PTL DEF Spec, DecisionsWhole

-----------------------------------------------------------------------------
(* The photo library. *)
\* A page with photos that still load was opened by somebody who had been in
\* the family group less than a token's life before.
PagesTell ==
    \A u \in Users : \A g \in page[u] :
        g.photos # {} /\ g.age < UrlTtl => since[Family][u] < Life + g.age

\* The directory holds the images of the photos listed, and no others if it is
\* a new one; the one given as --staging is the one kept.
StageHolds ==
    job.at = "stage" =>
        /\ ImagesOf(job.listed) \subseteq job.files
        /\ IF job.own THEN job.files \subseteq ImagesOf(job.listed)
                      ELSE job.files \subseteq kept

\* The photos the manifest lists, or will once it is sent.
Due == IF job.new = {} THEN Listed ELSE UNION {m.photos : m \in job.new}

\* What a sync has yet to move, with what the bucket holds, makes the bucket
\* the same as the directory.
SyncHolds ==
    job.at = "sync" =>
        LET dir == IF job.own THEN ImagesOf(Due) ELSE kept IN
        /\ last = "torn"
        /\ ImagesOf(Due) \subseteq bucket \cup job.put
        /\ ImagesOf(Due) \cap job.del = {}
        /\ job.put \subseteq dir
        /\ bucket \subseteq dir \cup job.del

LibraryInv ==
    /\ LibraryTypeOK /\ TokensInv
    /\ PagesTell /\ StageHolds /\ SyncHolds
    /\ ListedPhotosExist /\ UnlistedPhotosGone

\* A run that renders is one, and so is a run that syncs.
LEMMA JobShape ==
    ASSUME LibraryTypeOK
    PROVE  /\ job.at = "stage" =>
                  /\ job \in [at : {"stage"}, own : BOOLEAN, files : SUBSET Images,
                              todo : SUBSET Photos, listed : SUBSET Photos]
                  /\ job # NoJob
           /\ job.at = "sync" =>
                  /\ job \in [at : {"sync"}, own : BOOLEAN, put : SUBSET Images,
                              del : SUBSET Images, new : SUBSET Manifest]
                  /\ job # NoJob
           /\ NoJob.at \notin {"stage", "sync"}
  BY DEF LibraryTypeOK, Job, NoJob

\* The images of photos: theirs, of one more, and of none.
LEMMA ImagesAdd ==
    ASSUME NEW photos \in SUBSET Photos, NEW p \in Photos
    PROVE  /\ ImagesOf(photos \cup {p}) = ImagesOf(photos) \cup ImagesOf({p})
           /\ ImagesOf(photos) \subseteq Images
           /\ ImagesOf({p}) \subseteq Images
           /\ <<p, "full">> \in Images
  BY DEF ImagesOf, Images

\* No photos have no images.
LEMMA ImagesOfNone == ImagesOf({}) = {}
  BY DEF ImagesOf

\* At first the library is empty and no page is open.
LEMMA LibraryInitInv == LibraryInit => LibraryInv
  <1>. SUFFICES ASSUME LibraryInit PROVE LibraryInv  OBVIOUS
  <1>1. TokensInv  BY TokensInitInv DEF LibraryInit
  <1>2. LibraryTypeOK  BY <1>1 DEF LibraryInit, LibraryTypeOK, TokensInv
  <1>3. Listed = {}  BY DEF LibraryInit, Listed
  <1>4. PagesTell  BY DEF LibraryInit, PagesTell
  <1>5. StageHolds /\ SyncHolds  BY <1>2, JobShape DEF LibraryInit, StageHolds, SyncHolds
  <1>6. ListedPhotosExist /\ UnlistedPhotosGone
    BY <1>3, ImagesOfNone DEF LibraryInit, ListedPhotosExist, UnlistedPhotosGone
  <1>. QED  BY <1>1, <1>2, <1>4, <1>5, <1>6 DEF LibraryInv

-----------------------------------------------------------------------------
(* The tokens, the pages and the clock leave the library alone. *)

\* What the bucket holds does not depend on the tokens or the pages.
LEMMA LibraryAlone ==
    ASSUME LibraryInv, UNCHANGED <<bucket, manifest, kept, job, last>>
    PROVE  /\ StageHolds' /\ SyncHolds' /\ ListedPhotosExist' /\ UnlistedPhotosGone'
           /\ Listed' = Listed
  <1>1. Listed' = Listed  BY DEF Listed
  <1>2. (job.new = {}) = (job'.new = {})  OBVIOUS
  <1>3. Due' = Due  BY <1>1 DEF Due
  <1>. QED
    BY <1>1, <1>3
    DEF LibraryInv, StageHolds, SyncHolds, ListedPhotosExist, UnlistedPhotosGone

\* While memberships and tokens change, the open pages stay as they are.
LEMMA LibraryTokenStepKeeps ==
    LibraryInv /\ (Browse \/ Administer) /\ UNCHANGED photoVars => LibraryInv'
  <1>. SUFFICES ASSUME LibraryInv, Browse \/ Administer, UNCHANGED photoVars
                PROVE  LibraryInv'
    OBVIOUS
  <1>. USE DEF photoVars
  <1>1. TokensInv'  BY TokensStepKeeps DEF TokensStep, LibraryInv
  <1>2. LibraryTypeOK'  BY <1>1 DEF LibraryTypeOK, TokensInv, LibraryInv
  <1>3. PagesTell'
    <2>. SUFFICES ASSUME NEW u \in Users, NEW g \in page[u],
                         g.photos # {}, g.age < UrlTtl
                  PROVE  since'[Family][u] < Life + g.age
      BY DEF PagesTell
    <2>1. since[Family][u] < Life + g.age  BY DEF LibraryInv, PagesTell
    <2>2. since'[Family][u] \in {0, since[Family][u]}
      BY SinceOnlyResets, PhotoAssumption DEF LibraryInv
    <2>3. g.age \in Nat  BY PhotoAssumption DEF LibraryInv, LibraryTypeOK, Page
    <2>. QED  BY <2>1, <2>2, <2>3, TokensAssumption
  <1>. QED  BY <1>1, <1>2, <1>3, LibraryAlone DEF LibraryInv

\* A page is signed for somebody whose token names the family group.
LEMMA OpenKeeps ==
    ASSUME LibraryInv, NEW u \in Users, Open(u)
    PROVE  LibraryInv'
  <1>1. UNCHANGED <<bucket, manifest, kept, job, last>> /\ UNCHANGED tokenVars
    BY DEF Open
  <1>2. TokensInv'  BY <1>1, TokensStepKeeps DEF TokensStep, LibraryInv
  <1>3. Listed \in SUBSET Photos  BY DEF Listed, LibraryInv, LibraryTypeOK, Manifest
  <1>4. [photos |-> Listed, age |-> 0] \in Page
    BY <1>3, PhotoAssumption DEF Page
  <1>5. LibraryTypeOK'  BY <1>1, <1>2, <1>4 DEF Open, LibraryInv, LibraryTypeOK, TokensInv
  <1>6. PagesTell'
    <2>. SUFFICES ASSUME NEW v \in Users, NEW g \in page'[v],
                         g.photos # {}, g.age < UrlTtl
                  PROVE  since[Family][v] < Life + g.age
      BY <1>1 DEF PagesTell, tokenVars
    <2>1. CASE v # u
      BY <2>1 DEF Open, LibraryInv, LibraryTypeOK, PagesTell
    <2>2. CASE v = u
      <3>1. HasRole(u, Family) /\ g.age = 0
        BY <2>2 DEF Open, LibraryInv, LibraryTypeOK
      <3>2. since[Family][u] < Life
        BY <3>1, TokensPromise, PhotoAssumption DEF LibraryInv, RolesRunOut
      <3>. QED  BY <2>2, <3>1, <3>2, TokensAssumption
    <2>. QED  BY <2>1, <2>2
  <1>. QED  BY <1>1, <1>2, <1>5, <1>6, LibraryAlone DEF LibraryInv

\* A tick ages the page and the membership's end alike.
LEMMA LibraryPassKeeps == LibraryInv /\ LibraryPass => LibraryInv'
  <1>. SUFFICES ASSUME LibraryInv, LibraryPass PROVE LibraryInv'  OBVIOUS
  <1>1. UNCHANGED <<bucket, manifest, kept, job, last>> /\ Tick  BY DEF LibraryPass
  <1>2. TokensInv'  BY <1>1, TokensStepKeeps DEF TokensStep, LibraryInv
  <1>3. ASSUME NEW u \in Users, NEW s \in page'[u]
        PROVE  \E g \in page[u] :
                   /\ s \in Page /\ g \in Page
                   /\ s.photos = g.photos /\ s.age = Older(g.age, UrlTtl)
    <2>1. PICK g \in page[u] : s = [g EXCEPT !.age = Older(@, UrlTtl)]
      BY <1>3 DEF LibraryPass
    <2>2. g \in Page  BY DEF LibraryInv, LibraryTypeOK
    <2>3. Older(g.age, UrlTtl) \in 0..UrlTtl
      BY <2>2, PhotoAssumption DEF Page, Older
    <2>. QED  BY <2>1, <2>2, <2>3 DEF Page
  <1>4. LibraryTypeOK'
    <2>1. page' = [u \in Users |-> page'[u]]  BY DEF LibraryPass
    <2>2. page' \in [Users -> SUBSET Page]  BY <1>3, <2>1
    <2>. QED  BY <1>1, <1>2, <2>2 DEF LibraryInv, LibraryTypeOK, TokensInv
  <1>5. PagesTell'
    <2>. SUFFICES ASSUME NEW u \in Users, NEW s \in page'[u],
                         s.photos # {}, s.age < UrlTtl
                  PROVE  since'[Family][u] < Life + s.age
      BY DEF PagesTell
    <2>1. PICK g \in page[u] :
              /\ s \in Page /\ g \in Page
              /\ s.photos = g.photos /\ s.age = Older(g.age, UrlTtl)
      BY <1>3
    <2>2. s.age = g.age + 1 /\ g.age < UrlTtl /\ g.age \in Nat
      BY <2>1, PhotoAssumption DEF Page, Older
    <2>3. since[Family][u] < Life + g.age
      BY <2>1, <2>2 DEF LibraryInv, PagesTell
    <2>4. since[Family][u] \in 0..Horizon
      BY PhotoAssumption DEF LibraryInv, TokensInv, TokensTypeOK
    <2>5. since'[Family][u] <= since[Family][u] + 1 /\ since'[Family][u] \in Nat
      <3>1. since'[Family][u] =
                IF u \in members[Family] THEN 0 ELSE Older(since[Family][u], Horizon)
        BY <1>1, PhotoAssumption DEF Tick
      <3>. QED  BY <2>4, <3>1, TokensAssumption DEF Older
    <2>. QED  BY <2>2, <2>3, <2>4, <2>5, TokensAssumption
  <1>. QED  BY <1>1, <1>2, <1>4, <1>5, LibraryAlone DEF LibraryInv
-----------------------------------------------------------------------------
(* populate_library.py. *)

\* A step of the script keeps the invariant if it keeps what is about the
\* library: tokens and pages are left alone.
LEMMA PopulateFrame ==
    ASSUME LibraryInv, UNCHANGED page, UNCHANGED tokenVars,
           bucket' \subseteq Images, kept' \subseteq Images,
           manifest' \in SUBSET Manifest, job' \in Job \cup {NoJob},
           last' \in {"own", "kept", "torn"},
           StageHolds', SyncHolds', ListedPhotosExist', UnlistedPhotosGone'
    PROVE  LibraryInv'
  <1>1. TokensInv'  BY TokensStepKeeps DEF TokensStep, LibraryInv
  <1>2. LibraryTypeOK'  BY <1>1 DEF LibraryInv, LibraryTypeOK, TokensInv
  <1>3. PagesTell'  BY DEF LibraryInv, PagesTell, tokenVars
  <1>. QED  BY <1>1, <1>2, <1>3 DEF LibraryInv

\* As long as the bucket stays as it is and the kept directory only grows, what
\* the last sync left is as good as it was.
LEMMA BucketStays ==
    ASSUME LibraryInv, UNCHANGED <<bucket, manifest, last>>, kept \subseteq kept'
    PROVE  Listed' = Listed /\ ListedPhotosExist' /\ UnlistedPhotosGone'
  <1>1. Listed' = Listed  BY DEF Listed
  <1>. QED  BY <1>1 DEF LibraryInv, ListedPhotosExist, UnlistedPhotosGone

\* A run begins with an empty directory or the one kept.
LEMMA BeginKeeps ==
    ASSUME LibraryInv, NEW photos \in SUBSET Photos, NEW own \in BOOLEAN,
           Begin(photos, own), UNCHANGED page, UNCHANGED tokenVars
    PROVE  LibraryInv'
  <1>1. UNCHANGED <<bucket, manifest, kept, last>>  BY DEF Begin
  <1>2. /\ job'.at = "stage" /\ job'.own = own /\ job'.listed = {}
        /\ job'.files = IF own THEN {} ELSE kept
    BY DEF Begin
  <1>3. job' \in Job
    BY DEF Begin, Job, LibraryInv, LibraryTypeOK
  <1>4. StageHolds' /\ SyncHolds'
    BY <1>1, <1>2, ImagesOfNone DEF StageHolds, SyncHolds
  <1>5. ListedPhotosExist' /\ UnlistedPhotosGone'
    BY <1>1, BucketStays
  <1>. QED  BY <1>1, <1>3, <1>4, <1>5, PopulateFrame DEF LibraryInv, LibraryTypeOK

\* A photo whose source is missing is dealt with and not listed.
LEMMA SkipKeeps ==
    ASSUME LibraryInv, NEW p \in Photos, Skip(p), UNCHANGED page, UNCHANGED tokenVars
    PROVE  LibraryInv'
  <1>1. UNCHANGED <<bucket, manifest, kept, last>>  BY DEF Skip
  <1>2. /\ job \in [at : {"stage"}, own : BOOLEAN, files : SUBSET Images,
                    todo : SUBSET Photos, listed : SUBSET Photos]
    BY JobShape DEF Skip, LibraryInv
  <1>3. /\ job' \in Job /\ job'.at = "stage" /\ job'.own = job.own
        /\ job'.files = job.files /\ job'.listed = job.listed
    BY <1>2 DEF Skip, Job
  <1>4. StageHolds' /\ SyncHolds'
    BY <1>1, <1>2, <1>3 DEF StageHolds, SyncHolds, LibraryInv
  <1>5. ListedPhotosExist' /\ UnlistedPhotosGone'
    BY <1>1, BucketStays
  <1>. QED  BY <1>1, <1>3, <1>4, <1>5, PopulateFrame DEF LibraryInv, LibraryTypeOK

\* A photo is listed once both its images are in the directory.
LEMMA RenderKeeps ==
    ASSUME LibraryInv, NEW p \in Photos, Render(p), UNCHANGED page, UNCHANGED tokenVars
    PROVE  LibraryInv'
  <1>1. /\ UNCHANGED <<bucket, manifest, last>>
        /\ kept' = IF job.own THEN kept ELSE kept \cup ImagesOf({p})
    BY DEF Render, Write
  <1>2. /\ job \in [at : {"stage"}, own : BOOLEAN, files : SUBSET Images,
                    todo : SUBSET Photos, listed : SUBSET Photos]
    BY JobShape DEF Render, LibraryInv
  <1>3. /\ job' \in Job /\ job'.at = "stage" /\ job'.own = job.own
        /\ job'.files = job.files \cup ImagesOf({p})
        /\ job'.listed = job.listed \cup {p}
    BY <1>2, ImagesAdd DEF Render, Job
  <1>4. ImagesOf(job'.listed) = ImagesOf(job.listed) \cup ImagesOf({p})
    <2>1. job.listed \in SUBSET Photos  BY <1>2
    <2>2. ImagesOf(job.listed \cup {p}) = ImagesOf(job.listed) \cup ImagesOf({p})
      BY <2>1, ImagesAdd
    <2>. QED  BY <1>3, <2>2
  <1>5. StageHolds' /\ SyncHolds'
    <2>1. /\ ImagesOf(job.listed) \subseteq job.files
          /\ IF job.own THEN job.files \subseteq ImagesOf(job.listed)
                        ELSE job.files \subseteq kept
      BY <1>2 DEF StageHolds, LibraryInv
    <2>. QED  BY <1>1, <1>3, <1>4, <2>1 DEF StageHolds, SyncHolds
  <1>6. kept' \subseteq Images
    BY <1>1, ImagesAdd DEF LibraryInv, LibraryTypeOK
  <1>7. ListedPhotosExist' /\ UnlistedPhotosGone'
    BY <1>1, BucketStays
  <1>. QED  BY <1>1, <1>3, <1>5, <1>6, <1>7, PopulateFrame DEF LibraryInv, LibraryTypeOK

\* A run that ends before its sync is done, at a photo or by a signal, leaves
\* the bucket as it is.
LEMMA EndKeeps ==
    ASSUME LibraryInv, job' = NoJob, UNCHANGED <<bucket, manifest, last>>,
           kept' \subseteq Images, kept \subseteq kept',
           UNCHANGED page, UNCHANGED tokenVars
    PROVE  LibraryInv'
  <1>1. StageHolds' /\ SyncHolds'
    BY JobShape DEF StageHolds, SyncHolds, LibraryInv
  <1>2. ListedPhotosExist' /\ UnlistedPhotosGone'
    BY BucketStays
  <1>. QED  BY <1>1, <1>2, PopulateFrame DEF LibraryInv, LibraryTypeOK

\* A run that fails at a thumbnail leaves the full image in its directory.
LEMMA FailRenderKeeps ==
    ASSUME LibraryInv, NEW p \in Photos, FailRender(p),
           UNCHANGED page, UNCHANGED tokenVars
    PROVE  LibraryInv'
  <1>1. /\ job' = NoJob /\ UNCHANGED <<bucket, manifest, last>>
        /\ kept' = IF job.own THEN kept ELSE kept \cup {<<p, "full">>}
    BY DEF FailRender, Write
  <1>2. kept \subseteq kept' /\ kept' \subseteq Images
    BY <1>1, ImagesAdd DEF LibraryInv, LibraryTypeOK
  <1>. QED  BY <1>1, <1>2, EndKeeps

\* The sync is to send all the directory holds and delete the rest.
LEMMA UploadKeeps ==
    ASSUME LibraryInv, Upload, UNCHANGED page, UNCHANGED tokenVars
    PROVE  LibraryInv'
  <1>1. /\ job.at = "stage" /\ last' = "torn" /\ UNCHANGED <<bucket, manifest, kept>>
    BY DEF Upload
  <1>2. job \in [at : {"stage"}, own : BOOLEAN, files : SUBSET Images,
                 todo : SUBSET Photos, listed : SUBSET Photos]
    BY <1>1, JobShape DEF LibraryInv
  <1>3. /\ job'.at = "sync" /\ job'.own = job.own /\ job'.put = job.files
        /\ job'.del = bucket \ job.files
        /\ job'.new = {[photos |-> job.listed]}
    BY DEF Upload, Transfers
  <1>4. job' \in Job
    <2>1. /\ job.files \in SUBSET Images /\ bucket \ job.files \in SUBSET Images
          /\ {[photos |-> job.listed]} \in SUBSET Manifest /\ job.own \in BOOLEAN
      BY <1>2 DEF LibraryInv, LibraryTypeOK, Manifest
    <2>. QED  BY <2>1 DEF Upload, Transfers, Job
  <1>5. Due' = job.listed
    <2>1. job'.new # {}  BY <1>3
    <2>2. Due' = UNION {m.photos : m \in job'.new}  BY <2>1 DEF Due
    <2>3. \A m \in job'.new : m.photos = job.listed  BY <1>3
    <2>. QED  BY <2>1, <2>2, <2>3
  <1>6. /\ ImagesOf(job.listed) \subseteq job.files
        /\ IF job.own THEN job.files \subseteq ImagesOf(job.listed)
                      ELSE job.files \subseteq kept
    BY <1>1 DEF StageHolds, LibraryInv
  <1>7. StageHolds' /\ SyncHolds'
    BY <1>1, <1>3, <1>5, <1>6 DEF StageHolds, SyncHolds
  <1>8. ListedPhotosExist' /\ UnlistedPhotosGone'
    BY <1>1 DEF ListedPhotosExist, UnlistedPhotosGone
  <1>. QED  BY <1>1, <1>4, <1>7, <1>8, PopulateFrame DEF LibraryInv, LibraryTypeOK

\* What is known of the bucket while a sync is under way.
LEMMA SyncFacts ==
    ASSUME LibraryInv, job.at = "sync"
    PROVE  /\ job \in [at : {"sync"}, own : BOOLEAN, put : SUBSET Images,
                       del : SUBSET Images, new : SUBSET Manifest]
           /\ last = "torn"
           /\ ImagesOf(Due) \subseteq bucket \cup job.put
           /\ ImagesOf(Due) \cap job.del = {}
           /\ job.put \subseteq IF job.own THEN ImagesOf(Due) ELSE kept
           /\ bucket \subseteq (IF job.own THEN ImagesOf(Due) ELSE kept) \cup job.del
  BY JobShape DEF LibraryInv, SyncHolds

\* Until the sync is done the manifest and the bucket need not agree.
LEMMA TornSays ==
    ASSUME last' = "torn" PROVE ListedPhotosExist' /\ UnlistedPhotosGone'
  BY DEF ListedPhotosExist, UnlistedPhotosGone

\* An image sent is one of the directory's.
LEMMA PutKeeps ==
    ASSUME LibraryInv, NEW i \in Images, Put(i), UNCHANGED page, UNCHANGED tokenVars
    PROVE  LibraryInv'
  <1>1. /\ job.at = "sync" /\ i \in job.put /\ bucket' = bucket \cup {i}
        /\ UNCHANGED <<manifest, kept, last>>
    BY DEF Put
  <1>2. /\ job' \in Job /\ job'.at = "sync" /\ job'.own = job.own
        /\ job'.put = job.put \ {i} /\ job'.del = job.del /\ job'.new = job.new
    BY <1>1, SyncFacts DEF Put, Job
  <1>3. Due' = Due  BY <1>1, <1>2 DEF Due, Listed
  <1>4. StageHolds' /\ SyncHolds'
    BY <1>1, <1>2, <1>3, SyncFacts DEF StageHolds, SyncHolds
  <1>5. ListedPhotosExist' /\ UnlistedPhotosGone'
    BY <1>1, SyncFacts, TornSays
  <1>. QED  BY <1>1, <1>2, <1>4, <1>5, PopulateFrame DEF LibraryInv, LibraryTypeOK

\* An image deleted is none of the directory's, so none that is listed.
LEMMA DeleteKeeps ==
    ASSUME LibraryInv, NEW i \in Images, Delete(i), UNCHANGED page, UNCHANGED tokenVars
    PROVE  LibraryInv'
  <1>1. /\ job.at = "sync" /\ i \in job.del /\ bucket' = bucket \ {i}
        /\ UNCHANGED <<manifest, kept, last>>
    BY DEF Delete
  <1>2. /\ job' \in Job /\ job'.at = "sync" /\ job'.own = job.own
        /\ job'.put = job.put /\ job'.del = job.del \ {i} /\ job'.new = job.new
    BY <1>1, SyncFacts DEF Delete, Job
  <1>3. Due' = Due  BY <1>1, <1>2 DEF Due, Listed
  <1>4. StageHolds' /\ SyncHolds'
    BY <1>1, <1>2, <1>3, SyncFacts DEF StageHolds, SyncHolds
  <1>5. ListedPhotosExist' /\ UnlistedPhotosGone'
    BY <1>1, SyncFacts, TornSays
  <1>. QED  BY <1>1, <1>2, <1>4, <1>5, PopulateFrame DEF LibraryInv, LibraryTypeOK

\* The manifest sent is the one the directory was rendered for.
LEMMA PutManifestKeeps ==
    ASSUME LibraryInv, PutManifest, UNCHANGED page, UNCHANGED tokenVars
    PROVE  LibraryInv'
  <1>1. /\ job.at = "sync" /\ job.new # {} /\ manifest' = job.new
        /\ UNCHANGED <<bucket, kept, last>>
    BY DEF PutManifest
  <1>2. /\ job' \in Job /\ job'.at = "sync" /\ job'.own = job.own
        /\ job'.put = job.put /\ job'.del = job.del /\ job'.new = {}
        /\ job.new \in SUBSET Manifest
    BY <1>1, SyncFacts DEF PutManifest, Job
  <1>3. Due' = Due  BY <1>1, <1>2 DEF Due, Listed
  <1>4. StageHolds' /\ SyncHolds'
    BY <1>1, <1>2, <1>3, SyncFacts DEF StageHolds, SyncHolds
  <1>5. ListedPhotosExist' /\ UnlistedPhotosGone'
    BY <1>1, SyncFacts, TornSays
  <1>. QED  BY <1>1, <1>2, <1>4, <1>5, PopulateFrame DEF LibraryInv, LibraryTypeOK

\* A sync that is done has made the bucket the same as its directory.
LEMMA CompleteKeeps ==
    ASSUME LibraryInv, Complete, UNCHANGED page, UNCHANGED tokenVars
    PROVE  LibraryInv'
  <1>1. /\ job.at = "sync" /\ job.put = {} /\ job.del = {} /\ job.new = {}
        /\ job' = NoJob /\ last' = IF job.own THEN "own" ELSE "kept"
        /\ UNCHANGED <<bucket, manifest, kept>>
    BY DEF Complete
  <1>2. Due = Listed /\ Listed' = Listed  BY <1>1 DEF Due, Listed
  <1>3. StageHolds' /\ SyncHolds'
    BY <1>1, JobShape DEF StageHolds, SyncHolds, LibraryInv
  <1>4. /\ ImagesOf(Listed) \subseteq bucket
        /\ bucket \subseteq IF job.own THEN ImagesOf(Listed) ELSE kept
    BY <1>1, <1>2, SyncFacts
  <1>5. ListedPhotosExist' /\ UnlistedPhotosGone'
    BY <1>1, <1>2, <1>4 DEF ListedPhotosExist, UnlistedPhotosGone
  <1>. QED  BY <1>1, <1>3, <1>5, PopulateFrame DEF LibraryInv, LibraryTypeOK

\* Every step of the script keeps the invariant.
LEMMA PopulateKeeps == LibraryInv /\ Populate => LibraryInv'
  <1>1. ASSUME LibraryInv, Stop, UNCHANGED page, UNCHANGED tokenVars
        PROVE  LibraryInv'
    BY <1>1, EndKeeps DEF Stop, LibraryInv, LibraryTypeOK
  <1>. QED
    BY <1>1, BeginKeeps, SkipKeeps, RenderKeeps, FailRenderKeeps, UploadKeeps,
       PutKeeps, DeleteKeeps, PutManifestKeeps, CompleteKeeps
    DEF Populate

\* The invariant is inductive.
LEMMA LibraryNextKeeps == LibraryInv /\ [LibraryNext]_libraryVars => LibraryInv'
  <1>. SUFFICES ASSUME LibraryInv, [LibraryNext]_libraryVars PROVE LibraryInv'  OBVIOUS
  <1>1. CASE UNCHANGED libraryVars
    <2>1. UNCHANGED tokenVars /\ UNCHANGED page  BY <1>1 DEF libraryVars, tokenVars
    <2>2. UNCHANGED <<bucket, manifest, kept, job, last>>  BY <1>1 DEF libraryVars
    <2>. QED  BY <2>1, <2>2, LibraryAlone, PopulateFrame DEF LibraryInv, LibraryTypeOK
  <1>2. CASE LibraryNext
    BY <1>2, LibraryTokenStepKeeps, PopulateKeeps, OpenKeeps, LibraryPassKeeps DEF LibraryNext
  <1>. QED  BY <1>1, <1>2

\* So it always holds.
LEMMA LibraryAlways == LibrarySpec => []LibraryInv
  <1>. QED  BY LibraryInitInv, LibraryNextKeeps, PTL DEF LibrarySpec

-----------------------------------------------------------------------------

\* The bucket, the run of the script, the pages and the tokens are well typed.
THEOREM PhotoTypes == LibrarySpec => []LibraryTypeOK
  <1>1. LibraryInv => LibraryTypeOK  BY DEF LibraryInv
  <1>. QED  BY <1>1, LibraryAlways, PTL

\* A photo is seen at most a token's life and a URL's after the membership of
\* the family group ended.
THEOREM PhotoViewsRunOut == LibrarySpec => []ViewsRunOut
  <1>1. LibraryInv => ViewsRunOut
    <2>. SUFFICES ASSUME LibraryInv, NEW u \in Users, Shown(u) # {}
                  PROVE  since[Family][u] < Life + UrlTtl
      BY DEF ViewsRunOut
    <2>1. PICK g \in page[u] : g.photos # {} /\ g.age < UrlTtl
      BY DEF Shown
    <2>2. since[Family][u] < Life + g.age  BY <2>1 DEF LibraryInv, PagesTell
    <2>3. g.age \in Int /\ since[Family][u] \in Int
      BY PhotoAssumption DEF LibraryInv, LibraryTypeOK, Page, TokensTypeOK
    <2>. QED  BY <2>1, <2>2, <2>3, TokensAssumption, PhotoAssumption
  <1>. QED  BY <1>1, LibraryAlways, PTL

\* Every photo the manifest lists is in the bucket, full image and thumbnail,
\* unless a sync is under way or was cut short.
THEOREM PhotoListedExist == LibrarySpec => []ListedPhotosExist
  <1>1. LibraryInv => ListedPhotosExist  BY DEF LibraryInv
  <1>. QED  BY <1>1, LibraryAlways, PTL

\* No photo taken off the list stays in the bucket, but those of a directory
\* kept from an earlier run.
THEOREM PhotoUnlistedGone == LibrarySpec => []UnlistedPhotosGone
  <1>1. LibraryInv => UnlistedPhotosGone  BY DEF LibraryInv
  <1>. QED  BY <1>1, LibraryAlways, PTL

=============================================================================
