------------------------------ MODULE Moderation ------------------------------
(***************************************************************************)
(* Comments on the pages of the site, and the moderators' decisions about  *)
(* them.                                                                   *)
(*                                                                         *)
(* A comment is posted by anyone signed in and shown once a moderator      *)
(* approves it.  A decision reads the row, sets what it changes and        *)
(* commits, then reads the row again to answer; SQLAlchemy writes only the *)
(* columns whose value is not the one it read, so two decisions under way  *)
(* together may each leave part of the row.  Who is a moderator is what    *)
(* the tokens of module Tokens say.                                        *)
(***************************************************************************)
EXTENDS Tokens

CONSTANTS
    Comments,   \* ids of comments that may be posted
    Requests,   \* decisions that may be under way together
    Null

ASSUME ModerationAssumption == Null \notin Users

VARIABLES
    comment,    \* comment[c]: the row, as far as it is public, or NoComment
    request     \* request[r]: a call of moderate, with its locals

vars == <<members, since, asked, store, awaited, out, late, comment, request>>

Decisions == {"approved", "rejected"}
NoComment == [status |-> "none", moderatedBy |-> Null]
Rows == [status : {"pending"} \cup Decisions, moderatedBy : Users \cup {Null}]
Idle == [at |-> "idle"]

Busy ==
    [at : {"loaded", "committed"},
     by : Users, of : Comments, decision : Decisions,
     read : Rows,               \* the row as session.get returned it
     crossed : BOOLEAN]         \* history: another decision has committed since

TypeOK ==
    /\ TokensTypeOK
    /\ comment \in [Comments -> Rows \cup {NoComment}]
    /\ request \in [Requests -> Busy \cup {Idle}]

Init ==
    /\ TokensInit
    /\ comment = [c \in Comments |-> NoComment]
    /\ request = [r \in Requests |-> Idle]

-----------------------------------------------------------------------------
(* The comments API. *)

\* Variant: comments shown until somebody objects.
NewCommentShown == [status |-> "approved", moderatedBy |-> Null]

\* The columns create_comment gives a row: it lands as pending.
NewComment == [status |-> "pending", moderatedBy |-> Null]

\* create_comment, in one transaction; the rate limiter may refuse it instead.
Post(u, c) ==
    /\ \E t \in store[u] : Accepted(t)
    /\ comment[c] = NoComment
    /\ comment' = [comment EXCEPT ![c] = NewComment]
    /\ UNCHANGED request /\ UNCHANGED tokenVars

\* list_comments: the comments a reader is shown.
Visible == {c \in Comments : comment[c].status = "approved"}

\* moderate, as far as session.get: the role is checked, the row read (or
\* there is none and the answer is 404).
Load(r, u, c, d) ==
    /\ request[r] = Idle
    /\ HasRole(u, Moderators)
    /\ comment[c] # NoComment
    /\ request' = [request EXCEPT ![r] =
            [at |-> "loaded", by |-> u, of |-> c, decision |-> d,
             read |-> comment[c], crossed |-> FALSE]]
    /\ UNCHANGED comment /\ UNCHANGED tokenVars

\* Variants: a status that is only set once, and a name that is.
UpdatedOnce(row, read, new) ==
    [row EXCEPT !.moderatedBy = new.moderatedBy,
                !.status = IF read.status = "pending" THEN new.status ELSE @]
UpdatedUnsigned(row, read, new) ==
    [row EXCEPT !.status = new.status,
                !.moderatedBy = IF read.moderatedBy = Null THEN new.moderatedBy ELSE @]

\* The UPDATE of a commit: a column is set if its value is not the one read.
Updated(row, read, new) ==
    [k \in DOMAIN row |-> IF new[k] # read[k] THEN new[k] ELSE row[k]]

\* session.commit
Commit(r) ==
    LET q == request[r] IN
    /\ q.at = "loaded"
    /\ comment' = [comment EXCEPT ![q.of] =
            Updated(@, q.read, [status |-> q.decision, moderatedBy |-> q.by])]
    /\ request' = [s \in Requests |->
            IF s = r THEN [q EXCEPT !.at = "committed"]
            ELSE IF request[s].at # "idle" /\ request[s].of = q.of
                 THEN [request[s] EXCEPT !.crossed = TRUE]
            ELSE request[s]]
    /\ UNCHANGED tokenVars

\* session.refresh: the answer is the row as it is now.
Answer(r) ==
    /\ request[r].at = "committed"
    /\ request' = [request EXCEPT ![r] = Idle]
    /\ UNCHANGED comment /\ UNCHANGED tokenVars

Moderate ==
    \E r \in Requests :
        \/ \E u \in Users, c \in Comments, d \in Decisions : Load(r, u, c, d)
        \/ Commit(r)
        \/ Answer(r)

\* A tick is long and a request short: none is under way as the clock moves.
Pass ==
    /\ \A r \in Requests : request[r] = Idle
    /\ Tick
    /\ UNCHANGED <<comment, request>>

Next ==
    \/ (Browse \/ Administer) /\ UNCHANGED <<comment, request>>
    \/ \E u \in Users, c \in Comments : Post(u, c)
    \/ Moderate
    \/ Pass

Spec == Init /\ [][Next]_vars

-----------------------------------------------------------------------------
(* Properties. *)

\* A comment becomes visible only at the commit of a moderator's approval, and
\* he was a moderator less than the life of a token ago, whatever has been
\* revoked since and however the decisions overlap (moderation.py:37).
PublishedByModerators ==
    [][ \A c \in Visible' \ Visible :
            \E r \in Requests :
                /\ request[r].at = "loaded" /\ request'[r].at = "committed"
                /\ request[r].of = c /\ request[r].decision = "approved"
                /\ since[Moderators][request[r].by] < Life ]_vars

\* The row's name and status are those of one decision, unless another was
\* committed between its read and its write.
DecisionsWhole ==
    [][ \A r \in Requests :
            request[r].at = "loaded" /\ request'[r].at = "committed" =>
            LET row == comment'[request[r].of] IN
            \/ row = [status |-> request[r].decision, moderatedBy |-> request[r].by]
            \/ request[r].crossed ]_vars

\* A moderator is answered with the decision he made, unless another moderator
\* decided about that comment while he waited.
AnsweredAsDecided ==
    \A r \in Requests :
        request[r].at = "committed" =>
            \/ comment[request[r].of].status = request[r].decision
            \/ request[r].crossed
=============================================================================
