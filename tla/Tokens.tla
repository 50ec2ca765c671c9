-------------------------------- MODULE Tokens --------------------------------
(***************************************************************************)
(* Who may do what: membership of the groups of the Cognito user pool, the *)
(* ID tokens that carry it, and the browsers that keep them.               *)
(*                                                                         *)
(* The API and the photo list never ask Cognito who is a member: they read *)
(* the groups out of the token, which holds those of the moment it was     *)
(* issued.  A browser keeps its token until it expires, then trades a      *)
(* refresh token for a new one.  Moderators change membership through the  *)
(* API, which takes their word on the strength of their own token and then *)
(* calls Cognito.                                                          *)
(*                                                                         *)
(* Time is counted in ticks; a token is good for Life of them.             *)
(***************************************************************************)
EXTENDS Integers, FiniteSets

CONSTANTS
    Users,
    Groups,         \* settings.grantable_groups
    Moderators,     \* settings.moderator_group
    Life,           \* lifetime of an ID token, in ticks
    Horizon,        \* bound: ticks since a membership ended, counted up to here
    Tabs,           \* bound on the answers one browser waits for at once
    Calls           \* bound on the calls of Cognito in flight at once

ASSUME TokensAssumption ==
    /\ Moderators \in Groups
    /\ Life \in Nat \ {0} /\ Horizon \in Nat /\ Horizon >= Life
    /\ Tabs \in Nat /\ Calls \in Nat

VARIABLES
    members,    \* members[g]: who is in group g of the pool
    since,      \* history: since[g][u], ticks since u was last a member of g
    asked,      \* the changes of membership on their way from the API to the pool
    store,      \* store[u]: the set of tokens in localStorage, one or none
    awaited,    \* awaited[u]: the answers of /oauth2/token u's browser waits for
    out,        \* history: users who signed out and have not gone to sign in since
    late        \* history: those of them whose browser waited for an answer then

poolVars == <<members, since, asked>>
tokenVars == <<members, since, asked, store, awaited, out, late>>

Token == [groups : SUBSET Groups, age : 0..Life]
Change == [by : Users, to : Users, group : Groups, member : BOOLEAN]
Awaited == [refreshes : 0..Tabs, exchanges : 0..Tabs]

TokensTypeOK ==
    /\ members \in [Groups -> SUBSET Users]
    /\ since \in [Groups -> [Users -> 0..Horizon]]
    /\ asked \subseteq Change
    /\ store \in [Users -> SUBSET Token]
    /\ awaited \in [Users -> Awaited]
    /\ out \subseteq Users /\ late \subseteq Users

\* Somebody is a moderator, made one from the console; no one is signed in.
TokensInit ==
    /\ members \in {m \in [Groups -> SUBSET Users] : m[Moderators] # {}}
    /\ since = [g \in Groups |-> [u \in Users |-> IF u \in members[g] THEN 0 ELSE Horizon]]
    /\ asked = {}
    /\ store = [u \in Users |-> {}]
    /\ awaited = [u \in Users |-> [refreshes |-> 0, exchanges |-> 0]]
    /\ out = {} /\ late = {}

-----------------------------------------------------------------------------
(* The pool and the browsers. *)

\* The token Cognito issues to u now.
Issued(u) == [groups |-> {g \in Groups : u \in members[g]}, age |-> 0]

Waits(u) == awaited[u].refreshes > 0 \/ awaited[u].exchanges > 0
TabsBusy(u) == awaited[u].refreshes + awaited[u].exchanges >= Tabs

\* handleRedirect, back from the hosted sign-in page: it asks for tokens.
StartSignIn(u) ==
    /\ ~TabsBusy(u)
    /\ awaited' = [awaited EXCEPT ![u].exchanges = @ + 1]
    /\ out' = out \ {u} /\ late' = late \ {u}
    /\ UNCHANGED <<poolVars, store>>

\* The answer is stored, whatever another tab has done since the question.
FinishSignIn(u) ==
    /\ awaited[u].exchanges > 0
    /\ awaited' = [awaited EXCEPT ![u].exchanges = @ - 1]
    /\ store' = [store EXCEPT ![u] = {Issued(u)}]
    /\ UNCHANGED <<poolVars, out, late>>

\* An exchange that fails leaves localStorage as it is.
FailSignIn(u) ==
    /\ awaited[u].exchanges > 0
    /\ awaited' = [awaited EXCEPT ![u].exchanges = @ - 1]
    /\ UNCHANGED <<poolVars, store, out, late>>

\* signOut forgets the tokens; Cognito does not revoke the refresh token.
SignOut(u) ==
    /\ store' = [store EXCEPT ![u] = {}]
    /\ out' = out \cup {u}
    /\ late' = IF Waits(u) THEN late \cup {u} ELSE late \ {u}
    /\ UNCHANGED <<poolVars, awaited>>

\* Variant: a refresh that does not look for a token first.
StartRefreshAnyway(u) ==
    /\ ~TabsBusy(u)
    /\ awaited' = [awaited EXCEPT ![u].refreshes = @ + 1]
    /\ UNCHANGED <<poolVars, store, out, late>>

\* getIdToken, in any tab, finds the token expired and asks for another.
StartRefresh(u) ==
    /\ \E t \in store[u] : t.age = Life
    /\ ~TabsBusy(u)
    /\ awaited' = [awaited EXCEPT ![u].refreshes = @ + 1]
    /\ UNCHANGED <<poolVars, store, out, late>>

\* This answer, too, is stored whatever another tab has done since.
FinishRefresh(u) ==
    /\ awaited[u].refreshes > 0
    /\ awaited' = [awaited EXCEPT ![u].refreshes = @ - 1]
    /\ store' = [store EXCEPT ![u] = {Issued(u)}]
    /\ UNCHANGED <<poolVars, out, late>>

\* Any failure signs the browser out, even if another tab holds a good token.
FailRefresh(u) ==
    /\ awaited[u].refreshes > 0
    /\ awaited' = [awaited EXCEPT ![u].refreshes = @ - 1]
    /\ store' = [store EXCEPT ![u] = {}]
    /\ UNCHANGED <<poolVars, out, late>>

Older(n, cap) == IF n < cap THEN n + 1 ELSE cap

\* A tick is long and a call of Cognito short: none is under way as time passes.
Tick ==
    /\ asked = {}
    /\ store' = [u \in Users |-> {[t EXCEPT !.age = Older(@, Life)] : t \in store[u]}]
    /\ since' = [g \in Groups |-> [u \in Users |->
                    IF u \in members[g] THEN 0 ELSE Older(since[g][u], Horizon)]]
    /\ UNCHANGED <<members, asked, awaited, out, late>>

Browse ==
    \E u \in Users :
       \/ StartSignIn(u) \/ FinishSignIn(u) \/ FailSignIn(u) \/ SignOut(u)
       \/ StartRefresh(u) \/ FinishRefresh(u) \/ FailRefresh(u)

-----------------------------------------------------------------------------
(* The gate of the API.  A script keeps the token it was given, so expired *)
(* tokens are presented too: it is the gate that refuses them.             *)

\* Variant: a gate that lets an expired token in.
AcceptedAlways(t) == t.age <= Life

\* current_user
Accepted(t) == t.age < Life

\* require_moderator and the group check of the photo list
InGroup(t, g) == g \in t.groups

HasRole(u, g) == \E t \in store[u] : Accepted(t) /\ InGroup(t, g)

\* grant_group and revoke_group by m: the role is read out of the token, then the
\* pool is called.
Ask(m, u, g, member) ==
    /\ HasRole(m, Moderators)
    /\ Cardinality(asked) < Calls
    /\ asked' = asked \cup {[by |-> m, to |-> u, group |-> g, member |-> member]}
    /\ UNCHANGED <<members, since, store, awaited, out, late>>

\* Cognito does what it is asked.  boto3 repeats a call whose answer was lost, so
\* the call may be under way still.
Apply(c) ==
    /\ c \in asked
    /\ asked' \in {asked, asked \ {c}}
    /\ members' = [members EXCEPT ![c.group] = IF c.member THEN @ \cup {c.to} ELSE @ \ {c.to}]
    /\ since' = IF c.member THEN [since EXCEPT ![c.group][c.to] = 0] ELSE since
    /\ UNCHANGED <<store, awaited, out, late>>

\* Cognito refuses, or cannot be reached: the answer is 502 or 503.
Refuse(c) ==
    /\ c \in asked
    /\ asked' = asked \ {c}
    /\ UNCHANGED <<members, since, store, awaited, out, late>>

Administer ==
    \/ \E m, u \in Users, g \in Groups, member \in BOOLEAN : Ask(m, u, g, member)
    \/ \E c \in asked : Apply(c) \/ Refuse(c)

-----------------------------------------------------------------------------
(* Properties. *)

\* A role is good for at most the life of a token after the membership ended:
\* whoever is let in was a member less than Life ticks ago (auth.py reads the
\* groups of the token and nothing else).
RolesRunOut ==
    \A u \in Users, g \in Groups : HasRole(u, g) => since[g][u] < Life

\* A browser that signed out, and has not gone to sign in since, holds a token
\* again only when an answer was on its way as it did: auth.js stores the answer
\* without looking (auth.js:161 and auth.js:193).
SignOutHolds ==
    \A u \in out : store[u] # {} => u \in late

\* Whoever enters a group is let in by a call that somebody made who had been a
\* moderator less than the life of a token before, however many calls are under way
\* and whatever has been revoked since (admin_users.py:50).
GrantsByModerators ==
    [][ \A g \in Groups : \A u \in members'[g] \ members[g] :
            \E c \in asked :
                /\ c.to = u /\ c.group = g /\ c.member
                /\ since[Moderators][c.by] < Life ]_tokenVars
=============================================================================
