-------------------------- MODULE DbCredentialsProofs --------------------------
(***************************************************************************)
(* Proofs about DbCredentials, for any number of connections and rotations.*)
(***************************************************************************)
EXTENDS DbCredentials, TLAPS

\* A call holds the lock exactly while it reads; what it read is no older than
\* the cache, and is what the secret holds unless a rotation moved meanwhile.
Sane(c) ==
    /\ conn[c].at \in {"fetch", "fetched"} <=> lock = c
    /\ conn[c].at = "fetched" =>
         /\ conn[c].creds \in Passwords /\ conn[c].creds <= secret
         /\ cache # Null => cache <= conn[c].creds
         /\ conn[c].creds = secret \/ c \in moved
    /\ conn[c].at = "connect" /\ conn[c].refresh => conn[c].creds = secret \/ c \in moved

\* The cache runs behind the secret, and the secret behind the cluster.
Ordered == secret <= password /\ (cache # Null => cache <= secret)

Inv == TypeOK /\ Ordered /\ \A c \in Connections : Sane(c)

USE CredentialsAssumption DEF Passwords

\* Nothing is cached and nobody connects at first.
LEMMA Initially == Init => Inv
<1> SUFFICES ASSUME Init PROVE Inv
  OBVIOUS
<1>1. TypeOK
  BY DEF Init, TypeOK, Call, Idle
<1>2. Ordered
  BY DEF Init, Ordered
<1>3. \A c \in Connections : Sane(c)
  BY DEF Init, Sane, Idle
<1> QED
  BY <1>1, <1>2, <1>3 DEF Inv

\* A step of the rotation: every call has seen it.
LEMMA RotationKeeps ==
    ASSUME Inv, RotateCluster \/ RotateSecret
    PROVE  Inv'
<1>1. /\ moved' = Connections /\ UNCHANGED <<cache, lock, conn>>
      /\ outcome' = "none"
  BY DEF RotateCluster, RotateSecret
<1>2. secret \in Nat /\ password \in Nat /\ Ordered /\ TypeOK
  BY DEF Inv, TypeOK
<1>3. /\ password' \in Passwords /\ secret' \in Passwords
      /\ secret <= secret' /\ secret' <= password'
  <2>1. CASE RotateCluster
    BY <1>2, <2>1 DEF RotateCluster, Inv, TypeOK, Ordered
  <2>2. CASE RotateSecret
    BY <1>2, <2>2 DEF RotateSecret, Inv, TypeOK, Ordered
  <2> QED
    BY <2>1, <2>2
<1>4. TypeOK'
  BY <1>1, <1>2, <1>3 DEF TypeOK
<1>5. Ordered'
  <2>1. cache # Null => cache \in Nat /\ cache <= secret
    BY <1>2 DEF TypeOK, Ordered
  <2>2. secret' \in Nat
    BY <1>3
  <2> QED
    BY <1>1, <1>2, <1>3, <2>1, <2>2 DEF Ordered
<1>6. \A c \in Connections : Sane(c)'
  <2> SUFFICES ASSUME NEW c \in Connections PROVE Sane(c)'
    OBVIOUS
  <2>1. Sane(c) /\ c \in moved'
    BY <1>1 DEF Inv
  <2>2. conn[c].creds \in Passwords /\ conn[c].creds <= secret => conn[c].creds <= secret'
    BY <1>2, <1>3
  <2> QED
    BY <1>1, <2>1, <2>2 DEF Sane
<1> QED
  BY <1>4, <1>5, <1>6 DEF Inv

\* A step of one call that gives its record q, and leaves the passwords, the
\* cache and the lock as the others know them.
LEMMA OneMoves ==
    ASSUME Inv, NEW c \in Connections, NEW q \in Call,
           conn' = [conn EXCEPT ![c] = q],
           UNCHANGED <<password, secret>>,
           cache' = cache \/ (lock = c /\ cache' \in Passwords /\ cache' <= secret),
           lock' = lock \/ (lock = Null /\ lock' = c) \/ (lock = c /\ lock' = Null),
           moved' = moved \/ moved' = moved \ {c},
           outcome' \in {"none", "open", "refused", "error"},
           Sane(c)'
    PROVE  Inv'
<1>1. conn' \in [Connections -> Call] /\ \A d \in Connections : d # c => conn'[d] = conn[d]
  BY DEF Inv, TypeOK
<1>2. TypeOK'
  BY <1>1 DEF Inv, TypeOK
<1>3. Ordered'
  BY DEF Inv, Ordered
<1>4. ASSUME NEW d \in Connections, d # c PROVE Sane(d)'
  <2>1. conn'[d] = conn[d] /\ Sane(d) /\ (d \in moved' <=> d \in moved)
    BY <1>1, <1>4 DEF Inv
  <2>2. (lock' = d <=> lock = d) /\ (lock = d => cache' = cache)
    BY <1>4
  <2> QED
    BY <2>1, <2>2 DEF Sane
<1> QED
  BY <1>2, <1>3, <1>4 DEF Inv

LEMMA ConnectKeeps ==
    ASSUME Inv, NEW c \in Connections, Connect(c)
    PROVE  Inv'
<1> DEFINE q == [Idle EXCEPT !.at = "lock"]
<1>1. /\ conn[c].at = "idle" /\ conn \in [Connections -> Call] /\ Sane(c)
      /\ conn' = [conn EXCEPT ![c] = q] /\ outcome' = "none"
      /\ UNCHANGED <<password, secret, cache, lock, moved>>
  BY DEF Connect, Goto, Inv, TypeOK
<1>2. q \in Call /\ q.at = "lock"
  BY DEF Idle, Call
<1> HIDE DEF q
<1>3. conn'[c] = q
  BY <1>1
<1>4. Sane(c)'
  BY <1>1, <1>2, <1>3 DEF Sane
<1> QED
  BY <1>1, <1>2, <1>4, OneMoves

LEMMA GetCredentialsKeeps ==
    ASSUME Inv, NEW c \in Connections, GetCredentials(c)
    PROVE  Inv'
<1>1. /\ conn[c].at = "lock" /\ lock = Null /\ conn[c] \in Call /\ Sane(c)
      /\ conn \in [Connections -> Call] /\ cache \in Passwords \cup {Null}
      /\ UNCHANGED <<password, secret, cache, moved>>
  BY DEF GetCredentials, Inv, TypeOK
<1>2. CASE ~conn[c].refresh /\ cache # Null
  <2> DEFINE q == [conn[c] EXCEPT !.at = "connect", !.creds = cache]
  <2>1. conn' = [conn EXCEPT ![c] = q] /\ outcome' = "none" /\ lock' = lock
    BY <1>2 DEF GetCredentials, Goto
  <2>2. q \in Call /\ q.at = "connect" /\ ~q.refresh
    BY <1>1, <1>2 DEF Call
  <2> HIDE DEF q
  <2>3. conn'[c] = q
    BY <1>1, <2>1
  <2>4. Sane(c)'
    BY <1>1, <2>1, <2>2, <2>3 DEF Sane
  <2> QED
    BY <1>1, <2>1, <2>2, <2>4, OneMoves
<1>3. CASE ~(~conn[c].refresh /\ cache # Null)
  <2> DEFINE q == [conn[c] EXCEPT !.at = "fetch"]
  <2>1. conn' = [conn EXCEPT ![c] = q] /\ outcome' = "none" /\ lock' = c
    BY <1>3 DEF GetCredentials, Goto
  <2>2. q \in Call /\ q.at = "fetch"
    BY <1>1 DEF Call
  <2> HIDE DEF q
  <2>3. conn'[c] = q
    BY <1>1, <2>1
  <2>4. Sane(c)'
    BY <1>1, <2>1, <2>2, <2>3 DEF Sane
  <2> QED
    BY <1>1, <2>1, <2>2, <2>4, OneMoves
<1> QED
  BY <1>2, <1>3

LEMMA FetchSecretKeeps ==
    ASSUME Inv, NEW c \in Connections, FetchSecret(c)
    PROVE  Inv'
<1> DEFINE q == [conn[c] EXCEPT !.at = "fetched", !.creds = secret]
<1>1. /\ conn[c].at = "fetch" /\ conn[c] \in Call /\ Sane(c) /\ Ordered
      /\ conn \in [Connections -> Call] /\ secret \in Passwords
      /\ conn' = [conn EXCEPT ![c] = q] /\ outcome' = "none" /\ moved' = moved \ {c}
      /\ UNCHANGED <<password, secret, cache, lock>>
  BY DEF FetchSecret, Goto, Inv, TypeOK
<1>2. q \in Call /\ q.at = "fetched" /\ q.creds = secret
  BY <1>1 DEF Call
<1> HIDE DEF q
<1>3. conn'[c] = q
  BY <1>1
<1>4. Sane(c)'
  BY <1>1, <1>2, <1>3 DEF Sane, Ordered
<1> QED
  BY <1>1, <1>2, <1>4, OneMoves

\* The call that holds the lock writes what it read: the cache takes a step on.
LEMMA StoreCredentialsKeeps ==
    ASSUME Inv, NEW c \in Connections, StoreCredentials(c)
    PROVE  Inv' /\ (cache # Null => cache <= cache')
<1> DEFINE q == [conn[c] EXCEPT !.at = "connect"]
<1>1. /\ conn[c].at = "fetched" /\ conn[c] \in Call /\ Sane(c)
      /\ conn \in [Connections -> Call]
      /\ conn' = [conn EXCEPT ![c] = q] /\ outcome' = "none"
      /\ cache' = conn[c].creds /\ lock' = Null
      /\ UNCHANGED <<password, secret, moved>>
  BY DEF StoreCredentials, Goto, Inv, TypeOK
<1>2. q \in Call /\ q.at = "connect" /\ q.creds = conn[c].creds
  BY <1>1 DEF Call
<1> HIDE DEF q
<1>3. conn'[c] = q
  BY <1>1
<1>4. /\ lock = c /\ cache' \in Passwords /\ cache' <= secret
      /\ (cache # Null => cache <= cache')
      /\ cache' = secret \/ c \in moved
  BY <1>1 DEF Sane
<1>5. Sane(c)'
  BY <1>1, <1>2, <1>3, <1>4 DEF Sane
<1> QED
  BY <1>1, <1>2, <1>4, <1>5, OneMoves

\* A password that is refused goes round once, and then the call ends.
LEMMA AuthenticateKeeps ==
    ASSUME Inv, NEW c \in Connections, Authenticate(c)
    PROVE  Inv'
<1>1. /\ conn[c].at = "connect" /\ Sane(c) /\ conn \in [Connections -> Call]
      /\ UNCHANGED <<password, secret, cache, lock>>
  BY DEF Authenticate, Attempt, Inv, TypeOK
<1> DEFINE again == [Idle EXCEPT !.at = "lock", !.refresh = TRUE]
<1>2. conn' = [conn EXCEPT ![c] = Idle] \/ conn' = [conn EXCEPT ![c] = again]
  BY Zenon DEF Authenticate, Attempt, Goto, Return
<1>3. /\ outcome' \in {"none", "open", "refused", "error"}
      /\ moved' = moved \/ moved' = moved \ {c}
  BY DEF Authenticate, Attempt, Goto, Return
<1>4. again \in Call /\ again.at = "lock" /\ Idle \in Call /\ Idle.at = "idle"
  BY DEF Idle, Call
<1> HIDE DEF again
<1>5. PICK q \in Call : conn' = [conn EXCEPT ![c] = q] /\ q.at \in {"idle", "lock"}
  BY <1>2, <1>4
<1>6. conn'[c] = q
  BY <1>1, <1>5
<1>7. Sane(c)'
  BY <1>1, <1>5, <1>6 DEF Sane
<1> QED
  BY <1>1, <1>3, <1>5, <1>7, OneMoves

\* A call that is given up lets go of the lock.
LEMMA GiveUpKeeps ==
    ASSUME Inv, NEW c \in Connections, GiveUp(c)
    PROVE  Inv'
<1>1. /\ Sane(c) /\ conn \in [Connections -> Call]
      /\ conn' = [conn EXCEPT ![c] = Idle] /\ outcome' = "error"
      /\ lock' = IF lock = c THEN Null ELSE lock
      /\ UNCHANGED <<password, secret, cache, moved>>
  BY DEF GiveUp, Return, Inv, TypeOK
<1>2. Idle \in Call /\ Idle.at = "idle"
  BY DEF Idle, Call
<1>3. conn'[c] = Idle /\ lock' # c
  BY <1>1
<1>4. Sane(c)'
  BY <1>2, <1>3 DEF Sane
<1> QED
  BY <1>1, <1>2, <1>4, OneMoves

\* A new task has cached nothing and connects nowhere.
LEMMA TaskRestartsKeeps ==
    ASSUME Inv, TaskRestarts
    PROVE  Inv'
<1>1. /\ cache' = Null /\ lock' = Null /\ outcome' = "none"
      /\ conn' = [c \in Connections |-> Idle]
      /\ UNCHANGED <<password, secret, moved>>
  BY DEF TaskRestarts
<1>2. Idle \in Call /\ Idle.at = "idle"
  BY DEF Idle, Call
<1>3. TypeOK'
  BY <1>1, <1>2 DEF Inv, TypeOK
<1>4. Ordered'
  BY <1>1 DEF Inv, Ordered
<1>5. \A c \in Connections : Sane(c)'
  BY <1>1, <1>2 DEF Sane
<1> QED
  BY <1>3, <1>4, <1>5 DEF Inv

------------------------------------------------------------------------------
(* The theorems *)

\* The invariant is inductive.
LEMMA Preserved == Inv /\ [Next]_vars => Inv'
<1> SUFFICES ASSUME Inv, [Next]_vars PROVE Inv'
  OBVIOUS
<1>1. CASE UNCHANGED vars
  BY <1>1 DEF vars, Inv, TypeOK, Ordered, Sane
<1>2. CASE RotateCluster \/ RotateSecret
  BY <1>2, RotationKeeps
<1>3. CASE TaskRestarts
  BY <1>3, TaskRestartsKeeps
<1>4. ASSUME NEW c \in Connections, Step(c) PROVE Inv'
  BY <1>4, ConnectKeeps, GetCredentialsKeeps, FetchSecretKeeps, StoreCredentialsKeeps,
     AuthenticateKeeps, GiveUpKeeps DEF Step
<1> QED
  BY <1>1, <1>2, <1>3, <1>4 DEF Next

LEMMA Invariance == Spec => []Inv
BY Initially, Preserved, PTL DEF Spec

\* The cache, the lock and the calls in flight stay of their types.
THEOREM CredentialsTypeOK == Spec => []TypeOK
<1>1. Inv => TypeOK
  BY DEF Inv
<1> QED
  BY <1>1, Invariance, PTL

\* However reads of the secret overlap with rotations, the cache never goes back
\* to an older password.
THEOREM CredentialsNewestWins == Spec => NewestWins
<1>1. ASSUME Inv, [Next]_vars PROVE [cache # Null /\ cache' # Null => cache <= cache']_vars
  <2> SUFFICES ASSUME Next, cache # Null, cache' # Null PROVE cache <= cache'
    BY <1>1
  <2>1. cache <= cache
    BY <1>1 DEF Inv, TypeOK
  <2>2. CASE RotateCluster \/ RotateSecret
    BY <2>1, <2>2 DEF RotateCluster, RotateSecret
  <2>3. ~TaskRestarts
    BY DEF TaskRestarts
  <2>4. ASSUME NEW c \in Connections, Step(c) PROVE cache <= cache'
    <3>1. CASE StoreCredentials(c)
      BY <1>1, <3>1, StoreCredentialsKeeps
    <3>2. CASE Connect(c) \/ GetCredentials(c) \/ FetchSecret(c) \/ Authenticate(c) \/ GiveUp(c)
      <4>1. cache' = cache
        BY <3>2 DEF Connect, GetCredentials, FetchSecret, Authenticate, Attempt, GiveUp
      <4> QED
        BY <2>1, <4>1
    <3> QED
      BY <2>4, <3>1, <3>2 DEF Step
  <2> QED
    BY <2>2, <2>3, <2>4 DEF Next
<1> QED
  BY <1>1, Invariance, PTL DEF Spec, NewestWins

\* A second refusal needs a rotation that is under way, or that took a step
\* after the second read.
THEOREM CredentialsRefusalNeedsRotation == Spec => []RefusalNeedsRotation
<1>1. Inv => RefusalNeedsRotation
  BY DEF Inv, Sane, RefusalNeedsRotation
<1> QED
  BY <1>1, Invariance, PTL

=============================================================================
