------------------------------- MODULE Comments -------------------------------
(***************************************************************************)
(* The comment service: threads under reports. A write is a transaction at *)
(* READ COMMITTED: it starts (now() is its created_at), looks a comment up *)
(* and checks it, and writes with the commit, in three steps.              *)
(***************************************************************************)
EXTENDS Integers, Sequences, FiniteSets

CONSTANTS
  Reports, People,
  MaxReplyDepth,  \* store.MaxDepth
  Clients,        \* requests in flight at once
  MaxPosts        \* bound on requests

ASSUME CommentAssumption == MaxReplyDepth \in Nat /\ MaxPosts \in Nat

VARIABLES
  comments,  \* comment.comments in the order of their commits
  posting,   \* the requests in flight
  begun      \* requests so far: the clock of the database

commentVars == <<comments, posting, begun>>

NoComment == 0
Silent == [op |-> "none"]

CommentInit ==
  /\ comments = << >>
  /\ posting = [c \in Clients |-> Silent]
  /\ begun = 0

Begun(c, request) ==
  /\ posting[c] = Silent /\ begun < MaxPosts
  /\ begun' = begun + 1
  /\ posting' = [posting EXCEPT ![c] = request]
  /\ UNCHANGED comments

\* CreateComment: body and report given, the parent (if any) one that a page listed.
CreateComment(c, report, user, parent) ==
  Begun(c, [op |-> "create", pc |-> "check", at |-> begun + 1,
            report |-> report, user |-> user, parent |-> parent])

UpdateComment(c, id, user) == Begun(c, [op |-> "update", pc |-> "check", id |-> id, user |-> user])
DeleteComment(c, id, user) == Begun(c, [op |-> "delete", pc |-> "check", id |-> id, user |-> user])

\* Slip: the parent may be on another report.
ThreadsAnywhere(r) ==
  r.parent # NoComment => comments[r.parent].depth < MaxReplyDepth

\* ErrParentCrossReport and ErrDepthExceeded; a deleted parent may be answered.
Threads(r) ==
  r.parent # NoComment =>
    /\ comments[r.parent].report = r.report
    /\ comments[r.parent].depth < MaxReplyDepth

\* ErrNotFound for a deleted comment, ErrNotOwner for somebody else's.
Owns(r) == ~comments[r.id].deleted /\ comments[r.id].user = r.user

Check(c) ==
  LET r == posting[c]
  IN /\ r.op # "none" /\ r.pc = "check"
     /\ IF r.op = "create"
        THEN LET depth == IF r.parent = NoComment THEN 0 ELSE comments[r.parent].depth + 1
             IN posting' = [posting EXCEPT ![c] = IF Threads(r)
                  THEN [op |-> "create", pc |-> "write", at |-> r.at, report |-> r.report,
                        user |-> r.user, parent |-> r.parent, depth |-> depth]
                  ELSE Silent]
        ELSE posting' = [posting EXCEPT ![c] = IF Owns(r) THEN [r EXCEPT !.pc = "write"] ELSE Silent]
     /\ UNCHANGED <<comments, begun>>

\* The INSERT or the UPDATE, which names the comment by id alone.
WriteComment(c) ==
  LET r == posting[c]
  IN /\ r.op # "none" /\ r.pc = "write"
     /\ comments' = CASE
          r.op = "create" -> Append(comments,
            [report |-> r.report, user |-> r.user, parent |-> r.parent, depth |-> r.depth,
             at |-> r.at, edited |-> FALSE, deleted |-> FALSE])
          [] r.op = "update" -> [comments EXCEPT ![r.id].edited = TRUE]
          [] r.op = "delete" -> [comments EXCEPT ![r.id].deleted = TRUE]
     /\ posting' = [posting EXCEPT ![c] = Silent]
     /\ UNCHANGED begun

Fail(c) ==
  /\ posting[c] # Silent
  /\ posting' = [posting EXCEPT ![c] = Silent]
  /\ UNCHANGED <<comments, begun>>

\* List: by created_at; toCommentResponse keeps the body of a deleted one back.
ListedBefore(i, j) == comments[i].at < comments[j].at
toCommentResponse(i) == [body |-> ~comments[i].deleted, edited |-> comments[i].edited]
List(report) == {i \in DOMAIN comments : comments[i].report = report}

CommentNext ==
  \E c \in Clients :
    \/ \E report \in Reports, user \in People, parent \in {NoComment} \cup DOMAIN comments :
         CreateComment(c, report, user, parent)
    \/ \E id \in DOMAIN comments, user \in People : UpdateComment(c, id, user) \/ DeleteComment(c, id, user)
    \/ Check(c) \/ WriteComment(c) \/ Fail(c)

----------------------------------------------------------------------------
\* A page shows a thread whole: every reply is listed after the comment it
\* answers, on the same report, one level deeper and no deeper than allowed,
\* and a comment that has been deleted keeps its place and not its body
\* (Create's checks, List's order, Delete's soft delete).
ThreadIsSound ==
  \A report \in Reports : \A i \in List(report) :
    /\ comments[i].depth <= MaxReplyDepth
    /\ comments[i].parent # NoComment =>
         /\ comments[i].parent \in List(report)
         /\ ListedBefore(comments[i].parent, i)
         /\ comments[i].depth = comments[comments[i].parent].depth + 1

\* What its author deleted is never shown again, although an edit that was
\* checked before the deletion may still be written after it (Update, Delete).
DeletedStaysHidden ==
  [][\A i \in DOMAIN comments :
       (~toCommentResponse(i).body) => ~toCommentResponse(i)'.body]_commentVars
=============================================================================
