---------------------------- MODULE DbCredentials ----------------------------
(***************************************************************************)
(* The database connections of one API task, and the master password that  *)
(* rotates under them.                                                     *)
(*                                                                         *)
(* The task caches the credentials it read from Secrets Manager, behind an *)
(* asyncio lock, and hands them to every new connection; a connection that *)
(* is refused re-reads the secret and tries once more.  A rotation is two  *)
(* steps of somebody else: the cluster takes the new password, then the    *)
(* secret names it.                                                        *)
(***************************************************************************)
EXTENDS Integers

CONSTANTS
    Connections,    \* calls of _connect that may be in flight together
    Rotations,      \* bound on the rotations in a run
    Null

ASSUME CredentialsAssumption ==
    /\ Rotations \in Nat
    /\ Null \notin Nat
    /\ Null \notin Connections

\* A password is the number of the rotation that made it.
Passwords == 0..Rotations

VARIABLES
    password,   \* what the cluster accepts
    secret,     \* what the secret in Secrets Manager holds
    cache,      \* _credentials: what the task last read, Null before it has
    lock,       \* _credentials_lock: the connection that holds it, or Null
    conn,       \* conn[c]: where each call of _connect is, with its locals
    outcome,    \* what the last step told its caller
    moved       \* history: calls a rotation took a step under since they read
                \* the secret, or since they were refused

vars == <<password, secret, cache, lock, conn, outcome, moved>>

Call ==
    [at : {"idle", "lock", "fetch", "fetched", "connect"},
     refresh : BOOLEAN,                 \* the second round of the loop
     creds : Passwords \cup {Null}]     \* what it read, or took from the cache

Idle == [at |-> "idle", refresh |-> FALSE, creds |-> Null]

TypeOK ==
    /\ password \in Passwords /\ secret \in Passwords
    /\ cache \in Passwords \cup {Null}
    /\ lock \in Connections \cup {Null}
    /\ conn \in [Connections -> Call]
    /\ outcome \in {"none", "open", "refused", "error"}
    /\ moved \subseteq Connections

Init ==
    /\ password = 0 /\ secret = 0
    /\ cache = Null
    /\ lock = Null
    /\ conn = [c \in Connections |-> Idle]
    /\ outcome = "none"
    /\ moved = {}

------------------------------------------------------------------------------
(* The rotation *)

RotateCluster ==
    /\ secret = password /\ password < Rotations
    /\ password' = password + 1
    /\ moved' = Connections
    /\ outcome' = "none"
    /\ UNCHANGED <<secret, cache, lock, conn>>

RotateSecret ==
    /\ secret # password
    /\ secret' = password
    /\ moved' = Connections
    /\ outcome' = "none"
    /\ UNCHANGED <<password, cache, lock, conn>>

------------------------------------------------------------------------------
(* _connect and _get_credentials *)

Goto(c, call) ==
    /\ conn' = [conn EXCEPT ![c] = call]
    /\ outcome' = "none"

Return(c, result) ==
    /\ conn' = [conn EXCEPT ![c] = Idle]
    /\ outcome' = result

\* The pool asks for a connection.
Connect(c) ==
    /\ conn[c].at = "idle"
    /\ Goto(c, [Idle EXCEPT !.at = "lock"])
    /\ UNCHANGED <<password, secret, cache, lock, moved>>

\* Variants: the lock is not taken around the read; a refused connection is
\* given the cached credentials again.
GetWithoutLock(c) ==
    /\ conn[c].at = "lock"
    /\ IF ~conn[c].refresh /\ cache # Null
       THEN Goto(c, [conn[c] EXCEPT !.at = "connect", !.creds = cache])
       ELSE Goto(c, [conn[c] EXCEPT !.at = "fetch"])
    /\ UNCHANGED <<password, secret, cache, lock, moved>>

GetCached(c) ==
    /\ conn[c].at = "lock" /\ lock = Null
    /\ IF cache # Null
       THEN Goto(c, [conn[c] EXCEPT !.at = "connect", !.creds = cache]) /\ UNCHANGED lock
       ELSE Goto(c, [conn[c] EXCEPT !.at = "fetch"]) /\ lock' = c
    /\ UNCHANGED <<password, secret, cache, moved>>

\* Inside the lock: the cached credentials, or on to read the secret.
GetCredentials(c) ==
    /\ conn[c].at = "lock" /\ lock = Null
    /\ IF ~conn[c].refresh /\ cache # Null
       THEN Goto(c, [conn[c] EXCEPT !.at = "connect", !.creds = cache]) /\ UNCHANGED lock
       ELSE Goto(c, [conn[c] EXCEPT !.at = "fetch"]) /\ lock' = c
    /\ UNCHANGED <<password, secret, cache, moved>>

\* A thread reads the secret while the event loop runs other calls.
FetchSecret(c) ==
    /\ conn[c].at = "fetch"
    /\ Goto(c, [conn[c] EXCEPT !.at = "fetched", !.creds = secret])
    /\ moved' = moved \ {c}
    /\ UNCHANGED <<password, secret, cache, lock>>

\* Back on the event loop: the cache is written and the lock released.
StoreCredentials(c) ==
    /\ conn[c].at = "fetched"
    /\ cache' = conn[c].creds
    /\ lock' = Null
    /\ Goto(c, [conn[c] EXCEPT !.at = "connect"])
    /\ UNCHANGED <<password, secret, moved>>

\* The attempt, with what became of a refusal left to its caller.
Attempt(c, secondRefusal) ==
    /\ conn[c].at = "connect"
    /\ \/ conn[c].creds = password /\ Return(c, "open") /\ UNCHANGED moved
       \/ /\ conn[c].creds # password /\ ~conn[c].refresh
          /\ Goto(c, [Idle EXCEPT !.at = "lock", !.refresh = TRUE])
          /\ moved' = moved \ {c}
       \/ /\ conn[c].creds # password /\ conn[c].refresh
          /\ Return(c, secondRefusal) /\ UNCHANGED moved
    /\ UNCHANGED <<password, secret, cache, lock>>

\* Variant: the second refusal is swallowed, and the loop ends in the
\* RuntimeError below it.
AuthenticateSwallows(c) == Attempt(c, "unreachable")

\* A refused password goes round the loop once more, and the second time raises.
Authenticate(c) == Attempt(c, "refused")

\* Variant: a call that is given up keeps the lock it holds.
GiveUpLocked(c) ==
    /\ conn[c].at # "idle"
    /\ Return(c, "error")
    /\ UNCHANGED <<password, secret, cache, lock, moved>>

\* Anything else ends the call: boto3 or asyncpg raises, or the request is
\* cancelled.  The lock is released on the way out.
GiveUp(c) ==
    /\ conn[c].at # "idle"
    /\ Return(c, "error")
    /\ lock' = IF lock = c THEN Null ELSE lock
    /\ UNCHANGED <<password, secret, cache, moved>>

\* The task is replaced, and with it everything the process knew.
TaskRestarts ==
    /\ cache' = Null /\ lock' = Null
    /\ conn' = [c \in Connections |-> Idle]
    /\ outcome' = "none"
    /\ UNCHANGED <<password, secret, moved>>

------------------------------------------------------------------------------

Step(c) ==
    \/ Connect(c) \/ GetCredentials(c) \/ FetchSecret(c) \/ StoreCredentials(c)
    \/ Authenticate(c) \/ GiveUp(c)

Next ==
    \/ RotateCluster \/ RotateSecret \/ TaskRestarts
    \/ \E c \in Connections : Step(c)

Spec == Init /\ [][Next]_vars

\* Secrets Manager finishes a rotation it has begun; boto3 and asyncpg have
\* timeouts, so their calls end; asyncio.Lock is first come, first served.
Fairness ==
    /\ WF_vars(RotateSecret)
    /\ \A c \in Connections :
         /\ SF_vars(GetCredentials(c))
         /\ WF_vars(FetchSecret(c) \/ StoreCredentials(c) \/ Authenticate(c))

FairSpec == Spec /\ Fairness

------------------------------------------------------------------------------
(* Properties *)

\* The credentials a call is given are never older than those the cache was
\* left with before: a slow read cannot put back a password already replaced
\* (the lock around the read and the write in _get_credentials).
NewestWins == [][cache # Null /\ cache' # Null => cache <= cache']_vars

\* A connection is refused twice only when a rotation was under way, or took a
\* step after its own second read: "a second refusal is a real credential
\* problem, not a stale cache" but for that.
RefusalNeedsRotation ==
    \A c \in Connections :
        conn[c].at = "connect" /\ conn[c].refresh /\ conn[c].creds # password
        => c \in moved \/ secret # password

\* No call waits for the lock or its answers forever, whatever is cancelled.
EveryCallReturns == \A c \in Connections : conn[c].at # "idle" ~> conn[c].at = "idle"

\* "The stale-credential failure that caused this incident can no longer wedge
\* a task": once the rotations are over, connections are refused no more.
NeverWedged == <>[][outcome' # "refused"]_vars

=============================================================================
