-------------------------- MODULE ProjectData_proofs --------------------------
(***************************************************************************)
(* Proofs about what people write, choose, decide and hear of around the   *)
(* scans of a project: comments, notifications, engines, documents and     *)
(* triage. They hold for any number of people, requests, replicas and rows, *)
(* and any bounds.                                                         *)
(***************************************************************************)
EXTENDS Comments, NotificationDelivery, EngineSelection, ProjectDocuments, VexTriage,
        FiniteSetTheorems, WellFoundedInduction, TLAPS

(***************************************************************************)
(* Comments: what is on a page hangs together, although every request      *)
(* writes on the strength of what it read earlier.                         *)
(***************************************************************************)
CommentSpec == CommentInit /\ [][CommentNext]_commentVars

(***************************************************************************)
(* Types                                                                   *)
(***************************************************************************)
Comment == [report : Reports, user : People, parent : Nat, depth : 0..MaxReplyDepth,
            at : Nat, edited : BOOLEAN, deleted : BOOLEAN]

\* The requests: none, a new comment before and after its checks, a change.
Unchecked == [op : {"create"}, pc : {"check"}, at : Nat, report : Reports, user : People,
              parent : Nat]
Checked   == [op : {"create"}, pc : {"write"}, at : Nat, report : Reports, user : People,
              parent : Nat, depth : 0..MaxReplyDepth]
Change    == [op : {"update", "delete"}, pc : {"check", "write"}, id : Nat, user : People]
Posting   == {Silent} \cup Unchecked \cup Checked \cup Change

CommentTypes ==
  /\ comments \in Seq(Comment)
  /\ posting \in [Clients -> Posting]
  /\ begun \in Nat

LEMMA PostingKinds ==
  ASSUME NEW p \in Posting
  PROVE  /\ p.op = "none" => p = Silent
         /\ p.op = "create" /\ p.pc = "check" => p \in Unchecked
         /\ p.op = "create" /\ p.pc = "write" => p \in Checked
         /\ p.op \in {"update", "delete"} => p \in Change
         /\ p.op \in {"none", "create", "update", "delete"}
         /\ p.op # "none" => p.pc \in {"check", "write"}
  BY DEF Posting, Silent, Unchecked, Checked, Change

\* What an append and an update in place do to a sequence.
LEMMA Appended ==
  ASSUME NEW S, NEW s \in Seq(S), NEW x \in S
  PROVE  /\ Append(s, x) \in Seq(S)
         /\ DOMAIN Append(s, x) = DOMAIN s \cup {Len(s) + 1}
         /\ \A i \in DOMAIN s : Append(s, x)[i] = s[i]
         /\ Append(s, x)[Len(s) + 1] = x
  OBVIOUS

LEMMA Edited ==
  ASSUME NEW S, NEW s \in Seq(S), NEW i \in DOMAIN s, NEW x \in S
  PROVE  /\ [s EXCEPT ![i] = x] \in Seq(S)
         /\ DOMAIN [s EXCEPT ![i] = x] = DOMAIN s
  OBVIOUS

(***************************************************************************)
(* What each step does                                                     *)
(***************************************************************************)
\* What places a comment on its page; later writes do not touch it.
SameHead(p, q) ==
  p.report = q.report /\ p.parent = q.parent /\ p.depth = q.depth /\ p.at = q.at

\* A change names a comment that was on a page.
IdsInv == \A c \in Clients :
  posting[c].op \in {"update", "delete"} => posting[c].id \in DOMAIN comments

\* The comments keep their places and their deletions.
Grows ==
  /\ DOMAIN comments \subseteq DOMAIN comments'
  /\ \A i \in DOMAIN comments :
       SameHead(comments'[i], comments[i]) /\ (comments[i].deleted => comments'[i].deleted)

\* Beginning a request.
LEMMA Begins ==
  ASSUME CommentTypes, NEW c \in Clients, NEW r \in Posting, Begun(c, r)
  PROVE  CommentTypes' /\ Grows /\ begun' = begun + 1
  BY DEF Begun, CommentTypes, Grows, SameHead

LEMMA Creates ==
  ASSUME CommentTypes, NEW c \in Clients, NEW report \in Reports, NEW user \in People,
         NEW parent \in {NoComment} \cup DOMAIN comments, CreateComment(c, report, user, parent)
  PROVE  \E r \in Unchecked :
           Begun(c, r) /\ r.at = begun + 1 /\ r.parent \in {NoComment} \cup DOMAIN comments
<1> DEFINE r == [op |-> "create", pc |-> "check", at |-> begun + 1,
                 report |-> report, user |-> user, parent |-> parent]
<1>1. parent \in Nat /\ begun + 1 \in Nat
  BY DEF CommentTypes, NoComment
<1>2. r \in Unchecked
  BY <1>1 DEF Unchecked
<1> QED BY <1>2 DEF CreateComment

LEMMA Changes ==
  ASSUME CommentTypes, NEW c \in Clients, NEW id \in DOMAIN comments, NEW user \in People,
         UpdateComment(c, id, user) \/ DeleteComment(c, id, user)
  PROVE  \E r \in Change : Begun(c, r) /\ r.id = id
<1>1. id \in Nat
  BY DEF CommentTypes
<1>2. \A o \in {"update", "delete"} :
        [op |-> o, pc |-> "check", id |-> id, user |-> user] \in Change
  BY <1>1 DEF Change
<1> QED BY <1>2 DEF UpdateComment, DeleteComment

\* A check either refuses the request or lets it write what it asked for.
LEMMA Checks ==
  ASSUME CommentTypes, NEW c \in Clients, Check(c),
         posting[c].op = "create" => posting[c].parent \in {NoComment} \cup DOMAIN comments
  PROVE  \E r \in Posting :
           /\ posting' = [posting EXCEPT ![c] = r] /\ UNCHANGED <<comments, begun>>
           /\ \/ r = Silent
              \/ /\ posting[c] \in Unchecked /\ r \in Checked /\ Threads(posting[c])
                 /\ r.at = posting[c].at /\ r.report = posting[c].report
                 /\ r.parent = posting[c].parent
                 /\ r.depth = IF r.parent = NoComment THEN 0 ELSE comments[r.parent].depth + 1
              \/ posting[c] \in Change /\ r \in Change /\ r.id = posting[c].id
<1> DEFINE p == posting[c]
<1>1. p \in Posting /\ p.op # "none" /\ p.pc = "check" /\ UNCHANGED <<comments, begun>>
  BY DEF Check, CommentTypes
<1>2. CASE p.op = "create"
  <2>1. p \in Unchecked
    BY <1>1, <1>2, PostingKinds
  <2> DEFINE depth == IF p.parent = NoComment THEN 0 ELSE comments[p.parent].depth + 1
             r == [op |-> "create", pc |-> "write", at |-> p.at, report |-> p.report,
                   user |-> p.user, parent |-> p.parent, depth |-> depth]
  <2>2. posting' = [posting EXCEPT ![c] = IF Threads(p) THEN r ELSE Silent]
    BY <1>2 DEF Check
  <2>3. CASE Threads(p)
    <3>1. depth \in 0..MaxReplyDepth
      <4>1. CASE p.parent = NoComment
        BY <4>1, CommentAssumption
      <4>2. CASE p.parent # NoComment
        <5>1. comments[p.parent] \in Comment
          BY <1>2, <4>2 DEF CommentTypes
        <5>2. comments[p.parent].depth \in 0..MaxReplyDepth
              /\ comments[p.parent].depth < MaxReplyDepth
          BY <2>3, <4>2, <5>1 DEF Threads, Comment
        <5> QED BY <4>2, <5>2, CommentAssumption
      <4> QED BY <4>1, <4>2
    <3> HIDE DEF depth
    <3>2. r \in Checked
      BY <2>1, <3>1 DEF Unchecked, Checked
    <3>3. r \in Posting
      BY <3>2 DEF Posting
    <3> QED BY <1>1, <2>1, <2>2, <2>3, <3>2, <3>3 DEF depth
  <2>4. CASE ~Threads(p)
    BY <1>1, <2>2, <2>4 DEF Posting
  <2> QED BY <2>3, <2>4
<1>3. CASE p.op # "create"
  <2>1. p \in Change
    BY <1>1, <1>3, PostingKinds
  <2>2. posting' = [posting EXCEPT ![c] = IF Owns(p) THEN [p EXCEPT !.pc = "write"] ELSE Silent]
    BY <1>3 DEF Check
  <2>3. [p EXCEPT !.pc = "write"] \in Change /\ [p EXCEPT !.pc = "write"].id = p.id
    BY <2>1 DEF Change
  <2> QED BY <1>1, <2>1, <2>2, <2>3 DEF Posting
<1> QED BY <1>2, <1>3

\* A write adds the comment that was checked, or marks one that is there.
LEMMA Writes ==
  ASSUME CommentTypes, IdsInv, NEW c \in Clients, WriteComment(c)
  PROVE  /\ comments' \in Seq(Comment) /\ Grows /\ begun' = begun
         /\ posting' = [posting EXCEPT ![c] = Silent]
         /\ \A i \in DOMAIN comments' \ DOMAIN comments :
              posting[c] \in Checked /\ SameHead(comments'[i], posting[c])
<1> DEFINE r == posting[c]
<1>1. /\ r \in Posting /\ r.op # "none" /\ r.pc = "write"
      /\ begun' = begun /\ posting' = [posting EXCEPT ![c] = Silent]
  BY DEF WriteComment, CommentTypes
<1>2. CASE r.op = "create"
  <2>1. r \in Checked
    BY <1>1, <1>2, PostingKinds
  <2> DEFINE x == [report |-> r.report, user |-> r.user, parent |-> r.parent, depth |-> r.depth,
                   at |-> r.at, edited |-> FALSE, deleted |-> FALSE]
  <2>2. comments' = Append(comments, x)
    BY <1>2 DEF WriteComment
  <2>3. x \in Comment /\ SameHead(x, r)
    BY <2>1 DEF Comment, Checked, SameHead
  <2> HIDE DEF x
  <2>4. /\ comments' \in Seq(Comment)
        /\ DOMAIN comments' = DOMAIN comments \cup {Len(comments) + 1}
        /\ \A i \in DOMAIN comments : comments'[i] = comments[i]
        /\ comments'[Len(comments) + 1] = x
    BY <2>2, <2>3, Appended DEF CommentTypes
  <2> QED BY <1>1, <2>1, <2>3, <2>4 DEF Grows, SameHead
<1>3. CASE r.op \in {"update", "delete"}
  <2>1. r.id \in DOMAIN comments
    BY <1>3 DEF IdsInv
  <2> DEFINE old == comments[r.id]
  <2>2. old \in Comment
    BY <2>1 DEF CommentTypes
  <2>3. \E x \in Comment : /\ comments' = [comments EXCEPT ![r.id] = x]
                           /\ SameHead(x, old) /\ (old.deleted => x.deleted)
    <3>1. CASE r.op = "update"
      <4>1. [old EXCEPT !.edited = TRUE] \in Comment
        BY <2>2 DEF Comment
      <4>2. comments' = [comments EXCEPT ![r.id] = [old EXCEPT !.edited = TRUE]]
        BY <3>1 DEF WriteComment
      <4>3. SameHead([old EXCEPT !.edited = TRUE], old)
            /\ [old EXCEPT !.edited = TRUE].deleted = old.deleted
        BY <2>2 DEF Comment, SameHead
      <4> QED BY <4>1, <4>2, <4>3
    <3>2. CASE r.op = "delete"
      <4>1. [old EXCEPT !.deleted = TRUE] \in Comment
        BY <2>2 DEF Comment
      <4>2. comments' = [comments EXCEPT ![r.id] = [old EXCEPT !.deleted = TRUE]]
        BY <3>2 DEF WriteComment
      <4>3. SameHead([old EXCEPT !.deleted = TRUE], old) /\ [old EXCEPT !.deleted = TRUE].deleted
        BY <2>2 DEF Comment, SameHead
      <4> QED BY <4>1, <4>2, <4>3
    <3> QED BY <1>3, <3>1, <3>2
  <2>4. PICK x \in Comment : /\ comments' = [comments EXCEPT ![r.id] = x]
                             /\ SameHead(x, old) /\ (old.deleted => x.deleted)
    BY <2>3
  <2>5. comments' \in Seq(Comment) /\ DOMAIN comments' = DOMAIN comments
    BY <2>1, <2>4, Edited DEF CommentTypes
  <2>6. \A i \in DOMAIN comments : comments'[i] = IF i = r.id THEN x ELSE comments[i]
    BY <2>1, <2>4 DEF CommentTypes
  <2> QED BY <1>1, <2>4, <2>5, <2>6 DEF Grows, SameHead
<1> QED BY <1>1, <1>2, <1>3, PostingKinds

(***************************************************************************)
(* The invariant                                                           *)
(***************************************************************************)
\* Where a new comment hangs: after a comment of its page, one level below it.
After(cs, p)  == p.parent # NoComment => p.parent \in DOMAIN cs /\ cs[p.parent].at < p.at
Placed(cs, p) ==
  /\ After(cs, p)
  /\ p.parent # NoComment =>
       p.report = cs[p.parent].report /\ p.depth = cs[p.parent].depth + 1

\* A request is as good as what it has been checked against, comments that the
\* other requests go on changing.
Sound(cs, latest, p) ==
  /\ p.op \in {"update", "delete"} => p.id \in DOMAIN cs
  /\ p.op = "create" =>
       p.at <= latest /\ After(cs, p) /\ (p.pc = "write" => Placed(cs, p))

PostingInv == \A c \in Clients : Sound(comments, begun, posting[c])
PlaceInv   == \A i \in DOMAIN comments : Placed(comments, comments[i]) /\ comments[i].at <= begun

CommentInv == CommentTypes /\ PostingInv /\ PlaceInv

\* Nothing that is written takes the ground from under a comment or a request.
LEMMA GrowsKeeps ==
  ASSUME CommentTypes, CommentTypes', Grows, begun <= begun'
  PROVE  /\ \A p \in Comment \cup Checked : Placed(comments, p) => Placed(comments', p)
         /\ \A p \in Posting : Sound(comments, begun, p) => Sound(comments', begun', p)
<1>1. \A i \in DOMAIN comments :
        /\ i \in DOMAIN comments'
        /\ comments'[i].report = comments[i].report /\ comments'[i].depth = comments[i].depth
        /\ comments'[i].at = comments[i].at
  BY DEF Grows, SameHead
<1>2. \A p : After(comments, p) => After(comments', p)
  BY <1>1 DEF After
<1>3. \A p : Placed(comments, p) => Placed(comments', p)
  BY <1>1, <1>2 DEF Placed, After
<1>4. ASSUME NEW p \in Posting, Sound(comments, begun, p)
      PROVE  Sound(comments', begun', p)
  <2>1. p.op \in {"update", "delete"} => p.id \in DOMAIN comments'
    BY <1>1, <1>4 DEF Sound
  <2>2. ASSUME p.op = "create"
        PROVE  p.at <= begun'
    <3>1. p \in Unchecked \cup Checked
      BY <2>2, PostingKinds DEF Posting, Change, Silent
    <3>2. p.at \in Nat /\ begun \in Nat /\ begun' \in Nat /\ p.at <= begun
      BY <1>4, <2>2, <3>1 DEF Unchecked, Checked, CommentTypes, Sound
    <3> QED BY <3>2
  <2>3. p.op = "create" => After(comments', p) /\ (p.pc = "write" => Placed(comments', p))
    BY <1>2, <1>3, <1>4 DEF Sound
  <2> QED BY <2>1, <2>2, <2>3 DEF Sound
<1> QED BY <1>3, <1>4

\* So a step keeps the invariant when the request it leaves behind is sound and
\* the comment it adds, if any, is placed.
LEMMA StepKeeps ==
  ASSUME CommentInv, CommentTypes', Grows, begun <= begun',
         NEW c \in Clients, NEW r \in Posting, posting' = [posting EXCEPT ![c] = r],
         Sound(comments, begun', r) \/ Sound(comments', begun', r),
         \A i \in DOMAIN comments' \ DOMAIN comments :
           Placed(comments', comments'[i]) /\ comments'[i].at <= begun'
  PROVE  CommentInv'
<1>1. Sound(comments', begun', r)
  <2>1. CASE Sound(comments, begun', r)
    <3>1. \A i \in DOMAIN comments :
            /\ i \in DOMAIN comments'
            /\ comments'[i].report = comments[i].report /\ comments'[i].depth = comments[i].depth
            /\ comments'[i].at = comments[i].at
      BY DEF Grows, SameHead
    <3> QED BY <2>1, <3>1 DEF Sound, Placed, After
  <2> QED BY <2>1
<1>2. PostingInv'
  <2> SUFFICES ASSUME NEW d \in Clients PROVE Sound(comments', begun', posting'[d])
    BY DEF PostingInv
  <2>1. CASE d = c
    BY <1>1, <2>1 DEF CommentInv, CommentTypes
  <2>2. CASE d # c
    <3>1. posting'[d] = posting[d] /\ posting[d] \in Posting
      BY <2>2 DEF CommentInv, CommentTypes
    <3>2. Sound(comments, begun, posting[d])
      BY DEF CommentInv, PostingInv
    <3> QED BY <3>1, <3>2, GrowsKeeps DEF CommentInv
  <2> QED BY <2>1, <2>2
<1>3. PlaceInv'
  <2> SUFFICES ASSUME NEW i \in DOMAIN comments'
               PROVE  Placed(comments', comments'[i]) /\ comments'[i].at <= begun'
    BY DEF PlaceInv
  <2>1. CASE i \in DOMAIN comments
    <3>1. /\ Placed(comments, comments[i]) /\ comments[i].at <= begun
          /\ SameHead(comments'[i], comments[i]) /\ comments[i] \in Comment
          /\ begun \in Nat /\ begun' \in Nat
      BY <2>1 DEF CommentInv, PlaceInv, Grows, CommentTypes
    <3>2. Placed(comments', comments[i])
      BY <3>1, GrowsKeeps DEF CommentInv
    <3>3. Placed(comments', comments'[i])
      BY <3>1, <3>2 DEF Placed, After, SameHead
    <3>4. comments'[i].at = comments[i].at /\ comments[i].at \in Nat
      BY <3>1 DEF SameHead, Comment
    <3> QED BY <3>1, <3>3, <3>4
  <2> QED BY <2>1
<1> QED BY <1>2, <1>3 DEF CommentInv

LEMMA CommentStep ==
  ASSUME CommentInv, [CommentNext]_commentVars
  PROVE  CommentInv' /\ (Grows \/ UNCHANGED commentVars)
<1>1. ASSUME NEW c \in Clients, NEW report \in Reports, NEW user \in People,
             NEW parent \in {NoComment} \cup DOMAIN comments,
             CreateComment(c, report, user, parent)
      PROVE  CommentInv' /\ Grows
  <2>1. PICK r \in Unchecked :
          Begun(c, r) /\ r.at = begun + 1 /\ r.parent \in {NoComment} \cup DOMAIN comments
    BY <1>1, Creates DEF CommentInv
  <2>2. r \in Posting
    BY DEF Posting
  <2>3. CommentTypes' /\ Grows /\ begun' = begun + 1
    BY <2>1, <2>2, Begins DEF CommentInv
  <2>4. posting' = [posting EXCEPT ![c] = r] /\ comments' = comments /\ begun <= begun'
    BY <2>1, <2>3 DEF Begun, CommentInv, CommentTypes
  <2>5. r.op = "create" /\ r.pc = "check" /\ r.at <= begun'
    BY <2>1, <2>3 DEF Unchecked, CommentInv, CommentTypes
  <2>6. After(comments, r)
    <3> SUFFICES ASSUME r.parent # NoComment
                 PROVE  r.parent \in DOMAIN comments /\ comments[r.parent].at < r.at
      BY DEF After
    <3>1. comments[r.parent] \in Comment /\ comments[r.parent].at <= begun /\ begun \in Nat
      BY <2>1 DEF CommentInv, CommentTypes, PlaceInv
    <3>2. comments[r.parent].at \in Nat
      BY <3>1 DEF Comment
    <3> QED BY <2>1, <3>1, <3>2
  <2>7. Sound(comments, begun', r)
    BY <2>5, <2>6 DEF Sound
  <2> QED BY <2>2, <2>3, <2>4, <2>7, StepKeeps
<1>2. ASSUME NEW c \in Clients, NEW id \in DOMAIN comments, NEW user \in People,
             UpdateComment(c, id, user) \/ DeleteComment(c, id, user)
      PROVE  CommentInv' /\ Grows
  <2>1. PICK r \in Change : Begun(c, r) /\ r.id = id
    BY <1>2, Changes DEF CommentInv
  <2>2. r \in Posting
    BY DEF Posting
  <2>3. CommentTypes' /\ Grows /\ begun' = begun + 1
    BY <2>1, <2>2, Begins DEF CommentInv
  <2>4. posting' = [posting EXCEPT ![c] = r] /\ comments' = comments /\ begun <= begun'
    BY <2>1, <2>3 DEF Begun, CommentInv, CommentTypes
  <2>5. Sound(comments, begun', r)
    BY <2>1 DEF Sound, Change
  <2> QED BY <2>2, <2>3, <2>4, <2>5, StepKeeps
<1>3. ASSUME NEW c \in Clients, Check(c)
      PROVE  CommentInv' /\ Grows
  <2>1. Sound(comments, begun, posting[c])
    BY DEF CommentInv, PostingInv
  <2>2. posting[c].op = "create" => posting[c].parent \in {NoComment} \cup DOMAIN comments
    BY <2>1 DEF Sound, After
  <2>3. PICK r \in Posting :
          /\ posting' = [posting EXCEPT ![c] = r] /\ UNCHANGED <<comments, begun>>
          /\ \/ r = Silent
             \/ /\ posting[c] \in Unchecked /\ r \in Checked /\ Threads(posting[c])
                /\ r.at = posting[c].at /\ r.report = posting[c].report
                /\ r.parent = posting[c].parent
                /\ r.depth = IF r.parent = NoComment THEN 0 ELSE comments[r.parent].depth + 1
             \/ posting[c] \in Change /\ r \in Change /\ r.id = posting[c].id
    BY <1>3, <2>2, Checks DEF CommentInv
  <2>4. Sound(comments, begun, r)
    <3>1. CASE r = Silent
      BY <3>1 DEF Silent, Sound
    <3>2. CASE /\ posting[c] \in Unchecked /\ r \in Checked /\ Threads(posting[c])
               /\ r.at = posting[c].at /\ r.report = posting[c].report
               /\ r.parent = posting[c].parent
               /\ r.depth = IF r.parent = NoComment THEN 0 ELSE comments[r.parent].depth + 1
      <4>1. posting[c].op = "create" /\ r.op = "create"
        BY <3>2 DEF Unchecked, Checked
      <4>2. r.at <= begun /\ After(comments, r)
        BY <2>1, <3>2, <4>1 DEF Sound, After
      <4>3. Placed(comments, r)
        BY <3>2, <4>2 DEF Placed, Threads
      <4> QED BY <4>1, <4>2, <4>3 DEF Sound
    <3>3. CASE posting[c] \in Change /\ r \in Change /\ r.id = posting[c].id
      BY <2>1, <3>3 DEF Sound, Change
    <3> QED BY <2>3, <3>1, <3>2, <3>3
  <2>5. CommentTypes' /\ Grows /\ begun <= begun'
    BY <2>3 DEF CommentInv, CommentTypes, Grows, SameHead
  <2>6. Sound(comments, begun', r) /\ DOMAIN comments' \ DOMAIN comments = {}
    BY <2>3, <2>4
  <2> QED BY <2>3, <2>5, <2>6, StepKeeps
<1>4. ASSUME NEW c \in Clients, WriteComment(c)
      PROVE  CommentInv' /\ Grows
  <2>1. IdsInv
    BY DEF IdsInv, CommentInv, PostingInv, Sound
  <2>2. /\ comments' \in Seq(Comment) /\ Grows /\ begun' = begun
        /\ posting' = [posting EXCEPT ![c] = Silent]
        /\ \A i \in DOMAIN comments' \ DOMAIN comments :
             posting[c] \in Checked /\ SameHead(comments'[i], posting[c])
    BY <1>4, <2>1, Writes DEF CommentInv
  <2>3. Silent \in Posting /\ Sound(comments, begun', Silent)
    BY DEF Posting, Sound, Silent
  <2>4. CommentTypes' /\ begun <= begun'
    BY <2>2, <2>3 DEF CommentInv, CommentTypes
  <2>5. ASSUME NEW i \in DOMAIN comments' \ DOMAIN comments
        PROVE  Placed(comments', comments'[i]) /\ comments'[i].at <= begun'
    <3>1. posting[c] \in Checked /\ SameHead(comments'[i], posting[c])
      BY <2>2
    <3>2. posting[c].at <= begun /\ Placed(comments, posting[c])
      BY <3>1 DEF CommentInv, PostingInv, Sound, Checked
    <3>3. Placed(comments', posting[c])
      BY <2>2, <2>4, <3>1, <3>2, GrowsKeeps DEF CommentInv
    <3>4. Placed(comments', comments'[i])
      BY <3>1, <3>3 DEF Placed, After, SameHead
    <3> QED BY <2>2, <3>1, <3>2, <3>4 DEF SameHead
  <2> QED BY <2>2, <2>3, <2>4, <2>5, StepKeeps
<1>5. ASSUME NEW c \in Clients, Fail(c)
      PROVE  CommentInv' /\ Grows
  <2>1. posting' = [posting EXCEPT ![c] = Silent] /\ comments' = comments /\ begun' = begun
    BY <1>5 DEF Fail
  <2>2. Silent \in Posting /\ Sound(comments, begun', Silent)
    BY DEF Posting, Sound, Silent
  <2>3. CommentTypes' /\ Grows /\ begun <= begun'
    BY <2>1, <2>2 DEF CommentInv, CommentTypes, Grows, SameHead
  <2> QED BY <2>1, <2>2, <2>3, StepKeeps
<1>6. CASE UNCHANGED commentVars
  BY <1>6 DEF commentVars, CommentInv, CommentTypes, PostingInv, PlaceInv
<1> QED BY <1>1, <1>2, <1>3, <1>4, <1>5, <1>6 DEF CommentNext

LEMMA CommentsHold == CommentSpec => []CommentInv
<1>1. CommentInit => CommentInv
  BY DEF CommentInit, CommentInv, CommentTypes, PostingInv, PlaceInv, Sound, Silent, Posting
<1> QED BY <1>1, CommentStep, PTL DEF CommentSpec

(***************************************************************************)
(* The results                                                             *)
(***************************************************************************)
\* Every page shows its threads whole: a reply is listed with, after and one
\* level below the comment it answers (Create's checks, List's order).
THEOREM ThreadsHang == CommentSpec => []ThreadIsSound
<1>1. ASSUME CommentInv PROVE ThreadIsSound
  <2> SUFFICES ASSUME NEW report \in Reports, NEW i \in List(report)
               PROVE  /\ comments[i].depth <= MaxReplyDepth
                      /\ comments[i].parent # NoComment =>
                           /\ comments[i].parent \in List(report)
                           /\ ListedBefore(comments[i].parent, i)
                           /\ comments[i].depth = comments[comments[i].parent].depth + 1
    BY DEF ThreadIsSound
  <2>1. /\ i \in DOMAIN comments /\ comments[i].report = report
        /\ comments[i] \in Comment /\ Placed(comments, comments[i])
    BY <1>1 DEF List, CommentInv, CommentTypes, PlaceInv
  <2>2. comments[i].depth <= MaxReplyDepth
    BY <2>1, CommentAssumption DEF Comment
  <2> QED BY <2>1, <2>2 DEF Placed, After, List, ListedBefore
<1> QED BY <1>1, CommentsHold, PTL

\* A deleted comment stays deleted and its body hidden, whatever edit was
\* checked before the deletion and written after it (Update, Delete).
THEOREM DeletionsStand == CommentSpec => DeletedStaysHidden
<1>1. ASSUME CommentInv, [CommentNext]_commentVars
      PROVE  [\A i \in DOMAIN comments :
                (~toCommentResponse(i).body) => ~toCommentResponse(i)'.body]_commentVars
  <2>1. Grows \/ UNCHANGED commentVars
    BY <1>1, CommentStep
  <2> QED BY <2>1 DEF Grows, toCommentResponse, commentVars
<1> QED BY <1>1, CommentsHold, PTL DEF CommentSpec, DeletedStaysHidden

(***************************************************************************)
(* Notifications: who works on a delivery, how often it goes out, and who is *)
(* owed one.                                                               *)
(***************************************************************************)
\* An id that was not given out yet is nobody's.
IdsAreFresh ==
  \A d \in Ids : d >= nextId =>
    row[d] = NoRow /\ posts[d] = 0 /\ \A a \in Actors : ~ Holds(a, d)

\* A row that can be claimed, or will be, has an attempt left.
AttemptsRemain ==
  /\ \A d \in Ids : row[d].status = "pending" => row[d].attempt < MaxAttempts
  /\ \A a \in Actors : task[a].stage = "record" /\ task[a].verdict.status = "pending" =>
       task[a].verdict.attempt < MaxAttempts
\* A message that can be delivered has a delivery left.
DeliveriesRemain == \A m \in Messages : msg[m] \in {"unsent", "ready"} => delivered[m] < MaxDeliver

\* A poller has a row once: in its batch or under way.
ClaimsAreDistinct ==
  \A p \in Pollers : \A claim \in batch[p] :
    /\ task[p] # Idle => task[p].id # claim.id
    /\ \A other \in batch[p] : other.id = claim.id => other = claim

\* The POSTs that an actor may still make of a delivery, or cause to be made by the status
\* it is about to record.
Owes(a, d, n) ==
  \/ n = 0
  \/ task[a].stage = "send" /\ task[a].id = d /\ n = MaxAttempts - task[a].attempt + 1
  \/ /\ task[a].stage = "record" /\ task[a].id = d /\ task[a].verdict.status = "pending"
     /\ n = MaxAttempts - task[a].verdict.attempt
  \/ a \in Pollers /\ \E claim \in batch[a] : claim.id = d /\ n = MaxAttempts - claim.attempt
\* Those that a row which can be claimed still gives rise to.
RowOwes(d) == IF row[d].status = "pending" THEN MaxAttempts - row[d].attempt ELSE 0

\* What was sent and what may still be sent of a delivery is two schedules but one POST.
TwoSchedules ==
  \A d \in Ids :
    /\ posts[d] + RowOwes(d) <= 2 * MaxAttempts - 1
    /\ \A a, b \in Actors, m, n \in 0..MaxAttempts :
         a # b /\ Owes(a, d, m) /\ Owes(b, d, n) =>
           posts[d] + m + n + RowOwes(d) <= 2 * MaxAttempts - 1
    /\ \A a \in Actors, m \in 0..MaxAttempts :
         Owes(a, d, m) => posts[d] + m + RowOwes(d) <= 2 * MaxAttempts - 1

\* A message under way was published; who is on record for it subscribes, and wants it.
EventsAreSent ==
  /\ \A c \in Consumers : handling[c] # Nothing => msg[handling[c]] # "unsent"
  /\ \A m \in Messages : msg[m] = "unsent" => steady[m] = {}
  /\ \A m \in Messages : steady[m] \subseteq {s \in enabled : Wants(s, event[m])}

\* What a consumer has not come to is still on its list.
ListIsComplete ==
  \A c \in Consumers : handling[c] # Nothing =>
    \A s \in steady[handling[c]] :
      (Kind[s] = "email" => HasEmailForm(event[handling[c]])) =>
        \/ <<handling[c], s>> \in enqueued \cup missed
        \/ \E ref \in {"placeholder", "path"} : <<s, ref>> \in todo[c]

\* A row in processing is in the hands of a poller, or was when it died.
ProcessingIsHeld ==
  \A d \in Ids : row[d].status = "processing" =>
    d \in stranded \/ \E p \in Pollers : Holds(p, d)

RowsInv ==
  /\ IdsAreFresh /\ AttemptsRemain /\ ClaimsAreDistinct /\ AtMostTwoAttempts /\ TwoSchedules /\ ProcessingIsHeld
EventsInv == DeliveriesRemain /\ EventsAreSent /\ ListIsComplete /\ AckedEventIsOwed
NotifyInv == NotifyTypeOK /\ RowsInv /\ EventsInv

USE NotifyAssumption

LEMMA TaskKinds ==
  ASSUME NEW t \in Tasks
  PROVE  /\ t # Idle => t.stage \in {"send", "record"} /\ t.id \in Ids
         /\ t.stage \in {"send", "record"} => t # Idle
         /\ t.stage = "send" => t.sub \in Subs /\ t.ref \in {"placeholder", "path"} /\ t.attempt \in 1..MaxAttempts
         /\ t.stage = "record" => t.verdict \in Verdicts
  BY DEF Tasks, Idle

LEMMA RowKinds ==
  ASSUME NEW r \in Rows
  PROVE  /\ r # NoRow => r.sub \in Subs /\ r.attempt \in 1..MaxAttempts
         /\ r.status \in {"pending", "processing"} => r # NoRow
         /\ r.retry = "later" => r # NoRow
         /\ r.attempt \in 0..MaxAttempts /\ r.retry \in {"null", "later", "due"}
  BY DEF Rows, NoRow

LEMMA VerdictTyped ==
  ASSUME NEW status \in {"pending", "delivered", "dead_lettered"}, NEW n \in 1..MaxAttempts
  PROVE  /\ Verdict(status, n) \in Verdicts
         /\ Verdict(status, n).status = status /\ Verdict(status, n).attempt = n
  BY DEF Verdict, Verdicts

\* A retry is recorded only while there is an attempt left.
LEMMA ClassifyEffect ==
  ASSUME NEW answer \in Answers, NEW n \in 1..MaxAttempts
  PROVE  /\ Classify(answer, n) \in Verdicts /\ Classify(answer, n).attempt = n
         /\ Classify(answer, n).status = "pending" => n < MaxAttempts
  BY VerdictTyped DEF Classify, Answers

LEMMA DecideEffect ==
  ASSUME NEW a \in Actors, NotifyTypeOK, task[a].stage = "send", NEW v \in Verdicts, Decide(a, v)
  PROVE  /\ task' \in [Actors -> Tasks] /\ \A b \in Actors \ {a} : task'[b] = task[b]
         /\ task'[a].stage = "record" /\ task'[a].id = task[a].id /\ task'[a].verdict = v
         /\ task'[a] # Idle /\ task[a] # Idle /\ task[a].id \in Ids
  <1> DEFINE t == [stage |-> "record", id |-> task[a].id, verdict |-> v]
  <1>1. task[a] # Idle /\ task[a].id \in Ids
    BY TaskKinds DEF NotifyTypeOK
  <1>2. t \in Tasks /\ t.stage = "record" /\ t.id = task[a].id /\ t.verdict = v
    BY <1>1 DEF Tasks
  <1>3. task' = [task EXCEPT ![a] = t]
    BY DEF Decide
  <1> HIDE DEF t
  <1>4. task' \in [Actors -> Tasks] /\ task'[a] = t /\ \A b \in Actors \ {a} : task'[b] = task[b]
    BY <1>2, <1>3 DEF NotifyTypeOK
  <1> QED BY <1>1, <1>2, <1>4, TaskKinds

LEMMA WorkingEffect ==
  ASSUME NEW a \in Actors, NotifyTypeOK, NEW d \in Ids, NEW s \in Subs, NEW ref \in {"placeholder", "path"},
         NEW n \in 1..MaxAttempts, Working(a, d, s, ref, n)
  PROVE  /\ task' \in [Actors -> Tasks] /\ \A b \in Actors \ {a} : task'[b] = task[b]
         /\ task'[a].stage = "send" /\ task'[a].id = d /\ task'[a].attempt = n /\ task'[a] # Idle
  <1> DEFINE t == [stage |-> "send", id |-> d, sub |-> s, ref |-> ref, attempt |-> n]
  <1>1. t \in Tasks /\ t.stage = "send" /\ t.id = d /\ t.attempt = n
    BY DEF Tasks
  <1>2. task' = [task EXCEPT ![a] = t]
    BY DEF Working
  <1> HIDE DEF t
  <1>3. task' \in [Actors -> Tasks] /\ task'[a] = t /\ \A b \in Actors \ {a} : task'[b] = task[b]
    BY <1>1, <1>2 DEF NotifyTypeOK
  <1> QED BY <1>1, <1>3, TaskKinds

LEMMA RestingEffect ==
  ASSUME NEW a \in Actors, NotifyTypeOK, task' = [task EXCEPT ![a] = Idle]
  PROVE  /\ task' \in [Actors -> Tasks] /\ task'[a] = Idle /\ task'[a].stage = "idle"
         /\ \A b \in Actors \ {a} : task'[b] = task[b]
  <1>1. Idle \in Tasks /\ Idle.stage = "idle"
    BY DEF Tasks, Idle
  <1> QED BY <1>1 DEF NotifyTypeOK

(***************************************************************************)
(* Deliveries                                                              *)
(***************************************************************************)
USE DEF RowsInv

\* Who owes a POST holds the delivery, and nobody owes more than a schedule.
LEMMA OwingHolds ==
  ASSUME NotifyTypeOK, NEW a \in Actors, NEW d \in Ids, NEW n \in Nat, Owes(a, d, n), n # 0
  PROVE  Holds(a, d)
  <1>1. task[a] \in Tasks
    BY DEF NotifyTypeOK
  <1> QED BY <1>1, TaskKinds DEF Owes, Holds

LEMMA OwingHeld ==
  ASSUME NotifyTypeOK', NEW a \in Actors, NEW d \in Ids, NEW n \in Nat, Owes(a, d, n)', n # 0
  PROVE  Holds(a, d)'
  <1>1. task'[a] \in Tasks
    BY DEF NotifyTypeOK
  <1> QED BY <1>1, TaskKinds DEF Owes, Holds

LEMMA RowOwesTyped ==
  ASSUME NotifyTypeOK, NEW d \in Ids
  PROVE  /\ RowOwes(d) \in Nat /\ posts[d] \in Nat
         /\ row[d].status = "pending" => RowOwes(d) = MaxAttempts - row[d].attempt
         /\ row[d].status # "pending" => RowOwes(d) = 0
  <1>1. row[d].attempt \in 0..MaxAttempts /\ posts[d] \in Nat
    BY RowKinds DEF NotifyTypeOK
  <1> QED BY <1>1 DEF RowOwes

\* Steps that take nothing up: who holds a delivery held it before, and owes what it owed.
LEMMA NothingTakenUp ==
  ASSUME NotifyTypeOK, NotifyTypeOK', IdsAreFresh, AtMostTwoAttempts, TwoSchedules,
         \A a \in Actors, d \in Ids : Holds(a, d)' => Holds(a, d),
         \A a \in Actors, d \in Ids, n \in 0..MaxAttempts : Owes(a, d, n)' => Owes(a, d, n),
         \A d \in Ids : row'[d].status = "pending" =>
                          row[d].status = "pending" /\ row'[d].attempt = row[d].attempt,
         \A d \in Ids : row[d] = NoRow => row'[d] = NoRow,
         UNCHANGED <<posts, nextId>>
  PROVE  IdsAreFresh' /\ AtMostTwoAttempts' /\ TwoSchedules'
  <1>1. IdsAreFresh'
    BY DEF IdsAreFresh
  <1>2. AtMostTwoAttempts'
    BY DEF AtMostTwoAttempts
  <1>3. TwoSchedules'
    <2> SUFFICES ASSUME NEW d \in Ids
                 PROVE  /\ posts'[d] + RowOwes(d)' <= 2 * MaxAttempts - 1
                        /\ \A a, b \in Actors, m, n \in 0..MaxAttempts :
                             a # b /\ Owes(a, d, m)' /\ Owes(b, d, n)' =>
                               posts'[d] + m + n + RowOwes(d)' <= 2 * MaxAttempts - 1
                        /\ \A a \in Actors, m \in 0..MaxAttempts :
                             Owes(a, d, m)' => posts'[d] + m + RowOwes(d)' <= 2 * MaxAttempts - 1
      BY DEF TwoSchedules
    <2>1. RowOwes(d) \in Nat /\ posts[d] \in Nat /\ RowOwes(d)' \in Nat /\ RowOwes(d)' <= RowOwes(d)
      <3>1. row[d].status = "pending" => RowOwes(d) = MaxAttempts - row[d].attempt
        BY RowOwesTyped
      <3>2. RowOwes(d) \in Nat /\ posts[d] \in Nat
        BY RowOwesTyped
      <3>3. row'[d].attempt \in 0..MaxAttempts
        BY RowKinds DEF NotifyTypeOK
      <3>4. RowOwes(d)' = IF row'[d].status = "pending" THEN MaxAttempts - row'[d].attempt ELSE 0
        BY DEF RowOwes
      <3> QED BY <3>1, <3>2, <3>3, <3>4
    <2>2. posts[d] + RowOwes(d) <= 2 * MaxAttempts - 1
      BY DEF TwoSchedules
    <2>3. ASSUME NEW a \in Actors, NEW b \in Actors, NEW m \in 0..MaxAttempts, NEW n \in 0..MaxAttempts,
                 a # b, Owes(a, d, m)', Owes(b, d, n)'
          PROVE  posts'[d] + m + n + RowOwes(d)' <= 2 * MaxAttempts - 1
      <3>1. Owes(a, d, m) /\ Owes(b, d, n)
        BY <2>3
      <3>2. posts[d] + m + n + RowOwes(d) <= 2 * MaxAttempts - 1
        BY <2>3, <3>1 DEF TwoSchedules
      <3> QED BY <2>1, <3>2
    <2>4. ASSUME NEW a \in Actors, NEW m \in 0..MaxAttempts, Owes(a, d, m)'
          PROVE  posts'[d] + m + RowOwes(d)' <= 2 * MaxAttempts - 1
      <3>1. Owes(a, d, m)
        BY <2>4
      <3>2. posts[d] + m + RowOwes(d) <= 2 * MaxAttempts - 1
        BY <3>1 DEF TwoSchedules
      <3> QED BY <2>1, <3>2
    <2> QED BY <2>1, <2>2, <2>3, <2>4
  <1> QED BY <1>1, <1>2, <1>3


LEMMA SameActor ==
  ASSUME NEW b \in Actors, NEW d \in Ids, NEW n \in Nat,
         task'[b] = task[b], b \in Pollers => batch'[b] = batch[b]
  PROVE  (Holds(b, d)' <=> Holds(b, d)) /\ (Owes(b, d, n)' <=> Owes(b, d, n))
  BY DEF Holds, Owes

LEMMA RowsUnchanged ==
  ASSUME RowsInv, UNCHANGED <<row, nextId, batch, task, posts, stranded>>
  PROVE  RowsInv'
  <1>1. \A a \in Actors, d \in Ids : Holds(a, d)' <=> Holds(a, d)
    BY DEF Holds
  <1>2. \A a \in Actors, d \in Ids, n \in 0..MaxAttempts : Owes(a, d, n)' <=> Owes(a, d, n)
    BY DEF Owes
  <1>3. \A d \in Ids : RowOwes(d)' = RowOwes(d)
    BY DEF RowOwes
  <1>4. IdsAreFresh' /\ AttemptsRemain' /\ ClaimsAreDistinct'
    BY <1>1 DEF IdsAreFresh, AttemptsRemain, ClaimsAreDistinct
  <1>5. AtMostTwoAttempts'
    BY <1>1 DEF AtMostTwoAttempts
  <1>6. TwoSchedules'
    BY <1>2, <1>3 DEF TwoSchedules
  <1>7. ProcessingIsHeld'
    BY <1>1 DEF ProcessingIsHeld, Actors
  <1> QED BY <1>4, <1>5, <1>6, <1>7

\* Subscriptions, messages and the consumers' lists are none of the rows' business.
LEMMA UserSteps ==
  ASSUME NotifyTypeOK, RowsInv, NEW s \in Subs,
         Create(s) \/ SetSecretRef(s) \/ \E on \in BOOLEAN : SetEnabled(s, on)
  PROVE  NotifyTypeOK' /\ RowsInv'
  <1>1. NotifyTypeOK'
    <2>1. CASE Create(s)
      BY <2>1 DEF Create, NotifyTypeOK, msgVars, rowVars, history, Live
    <2>2. CASE SetSecretRef(s)
      BY <2>2 DEF SetSecretRef, NotifyTypeOK, msgVars, rowVars, history, Live, Fault
    <2>3. ASSUME NEW on \in BOOLEAN, SetEnabled(s, on) PROVE NotifyTypeOK'
      BY <2>3 DEF SetEnabled, NotifyTypeOK, msgVars, rowVars, Live, UserEdit
    <2> QED BY <2>1, <2>2, <2>3
  <1>2. UNCHANGED <<row, nextId, batch, task, posts, stranded>>
    BY DEF Create, SetSecretRef, SetEnabled, rowVars, history
  <1> QED BY <1>1, <1>2, RowsUnchanged

LEMMA PublishRows ==
  ASSUME NotifyTypeOK, RowsInv, NEW m \in Messages, NEW e \in Events, Publish(m, e)
  PROVE  NotifyTypeOK' /\ RowsInv'
  <1>1. NotifyTypeOK'
    BY DEF Publish, NotifyTypeOK, subVars, rowVars, Live
  <1>2. UNCHANGED <<row, nextId, batch, task, posts, stranded>>
    BY DEF Publish, rowVars
  <1> QED BY <1>1, <1>2, RowsUnchanged

LEMMA ConsumerSteps ==
  ASSUME NotifyTypeOK, RowsInv, DeliveriesRemain, NEW c \in Consumers,
         \/ \E m \in Messages : Receive(c, m)
         \/ Ack(c) \/ AckWaitPasses(c)
         \/ \E s \in Subs, ref \in {"placeholder", "path"} : SkipEmail(c, s, ref)
  PROVE  NotifyTypeOK' /\ RowsInv'
  <1>1. NotifyTypeOK'
    <2>1. ASSUME NEW m \in Messages, Receive(c, m) PROVE NotifyTypeOK'
      <3>1. Matching(m) \subseteq Subs \X {"placeholder", "path"}
        BY DEF Matching, Ref, NotifyTypeOK
      <3>2. delivered[m] < MaxDeliver
        BY <2>1 DEF Receive, DeliveriesRemain
      <3> QED BY <2>1, <3>1, <3>2, SMTT(60) DEF Receive, NotifyTypeOK, subVars, rowVars, history, Live, Fault
    <2>2. CASE Ack(c)
      BY <2>2 DEF Ack, NotifyTypeOK, subVars, rowVars, history, Live
    <2>3. CASE AckWaitPasses(c)
      BY <2>3 DEF AckWaitPasses, Redelivered, NotifyTypeOK, subVars, rowVars, history, Live
    <2>4. ASSUME NEW s \in Subs, NEW ref \in {"placeholder", "path"}, SkipEmail(c, s, ref) PROVE NotifyTypeOK'
      BY <2>4 DEF SkipEmail, NotifyTypeOK, subVars, rowVars, history, Live
    <2> QED BY <2>1, <2>2, <2>3, <2>4
  <1>2. UNCHANGED <<row, nextId, batch, task, posts, stranded>>
    BY DEF Receive, Ack, AckWaitPasses, SkipEmail, rowVars, history
  <1> QED BY <1>1, <1>2, RowsUnchanged

\* The rows go with their subscription; what was to be sent of them is sent.
LEMMA DeletionRows ==
  ASSUME NotifyTypeOK, RowsInv, NEW s \in Subs, DeleteSubscription(s), NotifyTypeOK', UNCHANGED <<batch, task>>
  PROVE  RowsInv'
  <1>1. /\ row' = [d \in Ids |-> IF row[d].sub = s THEN NoRow ELSE row[d]]
        /\ UNCHANGED <<nextId, posts, stranded>>
    BY DEF DeleteSubscription
  <1>2. \A d \in Ids : row'[d] = NoRow \/ row'[d] = row[d]
    BY <1>1
  <1>3. \A d \in Ids : row'[d].status \in {"pending", "processing"} => row'[d] = row[d]
    BY <1>2 DEF NoRow
  <1>4. \A d \in Ids : row[d] = NoRow => row'[d] = NoRow
    BY <1>2
  <1>5. \A a \in Actors, d \in Ids : Holds(a, d)' <=> Holds(a, d)
    BY DEF Holds
  <1>6. \A a \in Actors, d \in Ids, n \in 0..MaxAttempts : Owes(a, d, n)' => Owes(a, d, n)
    BY DEF Owes
  <1>7. IdsAreFresh' /\ AtMostTwoAttempts' /\ TwoSchedules'
    BY <1>1, <1>3, <1>4, <1>5, <1>6, NothingTakenUp
  <1>8. AttemptsRemain' /\ ClaimsAreDistinct'
    BY <1>3 DEF AttemptsRemain, ClaimsAreDistinct
  <1>9. ProcessingIsHeld'
    BY <1>1, <1>3, <1>5 DEF ProcessingIsHeld, Actors
  <1> QED BY <1>7, <1>8, <1>9

LEMMA DeletionSteps ==
  ASSUME NotifyTypeOK, RowsInv, NEW s \in Subs, StoreSecret(s) \/ Delete(s)
  PROVE  NotifyTypeOK' /\ RowsInv'
  <1>1. CASE StoreSecret(s) /\ sub' = [sub EXCEPT ![s] = "put"] /\ UNCHANGED <<enabled, rowVars, faults, history>>
    <2>1. NotifyTypeOK'
      BY <1>1 DEF StoreSecret, NotifyTypeOK, msgVars, rowVars, history, Live
    <2>2. UNCHANGED <<row, nextId, batch, task, posts, stranded>>
      BY <1>1 DEF StoreSecret, rowVars, history
    <2> QED BY <2>1, <2>2, RowsUnchanged
  <1>2. CASE DeleteSubscription(s) /\ UNCHANGED <<msgVars, batch, task>> /\ ((UNCHANGED edits /\ Fault) \/ (UserEdit /\ UNCHANGED faults))
    <2>1. row' \in [Ids -> Rows]
      BY <1>2 DEF DeleteSubscription, NotifyTypeOK, Rows
    <2>2. NotifyTypeOK'
      BY <1>2, <2>1 DEF DeleteSubscription, NotifyTypeOK, msgVars, Live, Fault, UserEdit
    <2> QED BY <1>2, <2>2, DeletionRows
  <1>3. CASE StoreSecret(s)
    <2>1. UNCHANGED <<msgVars, batch, task>> /\ UNCHANGED edits
      BY <1>3 DEF StoreSecret
    <2>2. \/ sub' = [sub EXCEPT ![s] = "put"] /\ UNCHANGED <<enabled, rowVars, faults, history>>
          \/ Fault /\ DeleteSubscription(s)
      BY <1>3, Zenon DEF StoreSecret
    <2>3. CASE Fault /\ DeleteSubscription(s)
      BY <1>2, <2>1, <2>3, Zenon
    <2>4. CASE sub' = [sub EXCEPT ![s] = "put"] /\ UNCHANGED <<enabled, rowVars, faults, history>>
      BY <1>1, <1>3, <2>4, Zenon
    <2> QED BY <2>2, <2>3, <2>4
  <1>4. CASE Delete(s)
    BY <1>2, <1>4, Zenon DEF Delete
  <1> QED BY <1>3, <1>4

\* The turn that an attempt has passes from one stage to the next.
LEMMA GiveUpRows ==
  ASSUME NotifyTypeOK, RowsInv, NEW a \in Actors, GiveUp(a)
  PROVE  NotifyTypeOK' /\ RowsInv'
  <1>1. task[a].stage = "send" /\ task[a] \in Tasks /\ task[a].attempt \in 1..MaxAttempts
    BY TaskKinds DEF GiveUp, NotifyTypeOK
  <1>2. PICK v \in Verdicts : v = Verdict("dead_lettered", task[a].attempt) /\ v.status = "dead_lettered"
    BY <1>1, VerdictTyped
  <1>3. /\ task' \in [Actors -> Tasks] /\ \A b \in Actors \ {a} : task'[b] = task[b]
        /\ task'[a].stage = "record" /\ task'[a].id = task[a].id /\ task'[a].verdict = v
        /\ task'[a] # Idle /\ task[a] # Idle
    BY <1>1, <1>2, DecideEffect DEF GiveUp
  <1>4. UNCHANGED <<subVars, msgVars, rowVars, batch, history>> /\ faults' \in 0..MaxFaults
    BY DEF GiveUp, Fault, NotifyTypeOK
  <1>5. NotifyTypeOK'
    BY <1>3, <1>4 DEF NotifyTypeOK, subVars, msgVars, rowVars, history, Live
  <1>6. \A b \in Actors, d \in Ids : Holds(b, d)' <=> Holds(b, d)
    BY <1>3, <1>4 DEF Holds
  <1>7. \A b \in Actors, d \in Ids, n \in 0..MaxAttempts : Owes(b, d, n)' => Owes(b, d, n)
    BY <1>2, <1>3, <1>4 DEF Owes
  <1>8. UNCHANGED <<row, posts, nextId, stranded>>
    BY <1>4 DEF rowVars, history
  <1>9. IdsAreFresh' /\ AtMostTwoAttempts' /\ TwoSchedules'
    BY <1>5, <1>6, <1>7, <1>8, NothingTakenUp
  <1>10. AttemptsRemain'
    BY <1>2, <1>3, <1>8 DEF AttemptsRemain
  <1>11. ClaimsAreDistinct'
    BY <1>3, <1>4 DEF ClaimsAreDistinct, Actors
  <1>12. ProcessingIsHeld'
    BY <1>6, <1>8 DEF ProcessingIsHeld, Actors
  <1> QED BY <1>5, <1>9, <1>10, <1>11, <1>12

LEMMA BackoffRows ==
  ASSUME NotifyTypeOK, RowsInv, NEW e \in Ids, BackoffPasses(e)
  PROVE  NotifyTypeOK' /\ RowsInv'
  <1>1. row' = [row EXCEPT ![e].retry = "due"] /\ row[e].retry = "later"
    BY DEF BackoffPasses
  <1>2. row[e] # NoRow /\ row[e] \in Rows
    BY <1>1, RowKinds DEF NotifyTypeOK
  <1>3. /\ row' \in [Ids -> Rows] /\ \A d \in Ids \ {e} : row'[d] = row[d]
        /\ row'[e].status = row[e].status /\ row'[e].attempt = row[e].attempt
    BY <1>1, <1>2 DEF NotifyTypeOK, Rows
  <1>4. UNCHANGED <<subVars, msgVars, nextId, batch, task, faults, history>>
    BY DEF BackoffPasses
  <1>5. NotifyTypeOK'
    BY <1>3, <1>4 DEF NotifyTypeOK, subVars, msgVars, history, Live
  <1>6. UNCHANGED <<nextId, batch, task, posts, stranded>>
    BY <1>4 DEF history
  <1>7. \A b \in Actors, d \in Ids : Holds(b, d)' <=> Holds(b, d)
    BY <1>6 DEF Holds
  <1>8. \A b \in Actors, d \in Ids, n \in 0..MaxAttempts : Owes(b, d, n)' => Owes(b, d, n)
    BY <1>6 DEF Owes
  <1>9. \A d \in Ids : /\ row'[d].status = row[d].status /\ row'[d].attempt = row[d].attempt
                       /\ row[d] = NoRow => row'[d] = NoRow
    BY <1>2, <1>3
  <1>10. IdsAreFresh' /\ AtMostTwoAttempts' /\ TwoSchedules'
    BY <1>5, <1>6, <1>7, <1>8, <1>9, NothingTakenUp
  <1>11. AttemptsRemain' /\ ClaimsAreDistinct'
    BY <1>6, <1>9 DEF AttemptsRemain, ClaimsAreDistinct
  <1>12. ProcessingIsHeld'
    BY <1>6, <1>7, <1>9 DEF ProcessingIsHeld, Actors
  <1> QED BY <1>5, <1>10, <1>11, <1>12

LEMMA LookupRows ==
  ASSUME NotifyTypeOK, RowsInv, NEW p \in Pollers, NEW claim \in batch[p], Lookup(p, claim)
  PROVE  NotifyTypeOK' /\ RowsInv'
  <1>1. /\ claim \in Claims /\ claim.id \in Ids /\ claim.sub \in Subs /\ claim.attempt \in 1..(MaxAttempts - 1)
        /\ p \in Actors
    BY DEF NotifyTypeOK, Claims, Actors
  <1>2. PICK k \in 1..(MaxAttempts - 1) : k = claim.attempt
    BY <1>1
  <1>3. k + 1 \in 1..MaxAttempts /\ k \in 1..MaxAttempts
    BY <1>2
  <1>4. /\ task[p] = Idle /\ batch' = [batch EXCEPT ![p] = @ \ {claim}]
        /\ UNCHANGED <<subVars, msgVars, rowVars, history>> /\ faults' \in 0..MaxFaults
    BY DEF Lookup, Fault, NotifyTypeOK
  <1>5. /\ task' \in [Actors -> Tasks] /\ \A b \in Actors \ {p} : task'[b] = task[b]
        /\ task'[p].id = claim.id /\ task'[p] # Idle
        /\ \/ task'[p].stage = "send" /\ task'[p].attempt = k + 1
           \/ task'[p].stage = "record" /\ task'[p].verdict.status = "dead_lettered"
    <2>1. CASE Working(p, claim.id, claim.sub, Ref(claim.sub), claim.attempt + 1)
      <3>1. Ref(claim.sub) \in {"placeholder", "path"}
        BY DEF Ref
      <3>2. claim.attempt + 1 = k + 1
        BY <1>2
      <3> QED BY <1>1, <1>3, <2>1, <3>1, <3>2, WorkingEffect
    <2>2. CASE task' = [task EXCEPT ![p] = [stage |-> "record", id |-> claim.id,
                          verdict |-> Verdict("dead_lettered", claim.attempt)]]
      <3>1. PICK v \in Verdicts : v = Verdict("dead_lettered", claim.attempt) /\ v.status = "dead_lettered"
        BY <1>2, <1>3, VerdictTyped
      <3> DEFINE t == [stage |-> "record", id |-> claim.id, verdict |-> v]
      <3>2. t \in Tasks /\ t.id = claim.id /\ t.stage = "record" /\ t.verdict = v
        BY <1>1 DEF Tasks
      <3>3. task' = [task EXCEPT ![p] = t]
        BY <2>2, <3>1
      <3> HIDE DEF t
      <3>4. task' \in [Actors -> Tasks] /\ task'[p] = t /\ \A b \in Actors \ {p} : task'[b] = task[b]
        BY <1>1, <3>2, <3>3 DEF NotifyTypeOK
      <3>5. t # Idle
        BY <3>2 DEF Idle
      <3> QED BY <3>1, <3>2, <3>4, <3>5
    <2> QED BY <2>1, <2>2 DEF Lookup
  <1>6. /\ batch' \in [Pollers -> SUBSET Claims] /\ batch'[p] = batch[p] \ {claim}
        /\ \A q \in Pollers \ {p} : batch'[q] = batch[q]
    BY <1>4 DEF NotifyTypeOK
  <1>7. NotifyTypeOK'
    BY <1>4, <1>5, <1>6 DEF NotifyTypeOK, subVars, msgVars, rowVars, history, Live
  <1>8. UNCHANGED <<row, posts, nextId, stranded>>
    BY <1>4 DEF rowVars, history
  <1>9. \A b \in Actors, d \in Ids : Holds(b, d)' <=> Holds(b, d)
    <2>1. ASSUME NEW d \in Ids PROVE Holds(p, d)' <=> Holds(p, d)
      BY <1>1, <1>4, <1>5, <1>6 DEF Holds
    <2>2. ASSUME NEW b \in Actors, NEW d \in Ids, b # p PROVE Holds(b, d)' <=> Holds(b, d)
      BY <1>5, <1>6, <2>2 DEF Holds
    <2> QED BY <2>1, <2>2
  <1>10. \A b \in Actors, d \in Ids, n \in 0..MaxAttempts : Owes(b, d, n)' => Owes(b, d, n)
    <2>1. ASSUME NEW d \in Ids, NEW n \in 0..MaxAttempts, Owes(p, d, n)' PROVE Owes(p, d, n)
      <3>1. \/ n = 0 
            \/ claim.id = d /\ n = MaxAttempts - (k + 1) + 1
            \/ \E other \in batch[p] : other.id = d /\ n = MaxAttempts - other.attempt
        BY <1>5, <1>6, <2>1 DEF Owes
      <3>2. MaxAttempts - (k + 1) + 1 = MaxAttempts - claim.attempt
        BY <1>2
      <3> QED BY <3>1, <3>2 DEF Owes
    <2>2. ASSUME NEW b \in Actors, NEW d \in Ids, NEW n \in 0..MaxAttempts, b # p PROVE Owes(b, d, n)' <=> Owes(b, d, n)
      BY <1>5, <1>6, <2>2 DEF Owes
    <2> QED BY <2>1, <2>2
  <1>11. IdsAreFresh' /\ AtMostTwoAttempts' /\ TwoSchedules'
    BY <1>7, <1>8, <1>9, <1>10, NothingTakenUp
  <1>12. AttemptsRemain'
    BY <1>5, <1>8 DEF AttemptsRemain
  <1>13. ClaimsAreDistinct'
    BY <1>5, <1>6 DEF ClaimsAreDistinct, Actors
  <1>14. ProcessingIsHeld'
    BY <1>8, <1>9 DEF ProcessingIsHeld, Actors
  <1> QED BY <1>7, <1>11, <1>12, <1>13, <1>14

LEMMA CrashRows ==
  ASSUME NotifyTypeOK, RowsInv, NEW a \in Actors, (CrashConsumer(a) /\ a \in Consumers) \/ (CrashPoller(a) /\ a \in Pollers)
  PROVE  NotifyTypeOK' /\ RowsInv'
  <1>1. /\ task' = [task EXCEPT ![a] = Idle]
        /\ UNCHANGED <<subVars, event, delivered, rowVars, posts, steady, enqueued, missed>>
        /\ faults' \in 0..MaxFaults
    BY DEF CrashConsumer, CrashPoller, history, msgVars, Fault, NotifyTypeOK
  <1>2. /\ task' \in [Actors -> Tasks] /\ task'[a] = Idle /\ task'[a].stage = "idle"
        /\ \A b \in Actors \ {a} : task'[b] = task[b]
    BY <1>1, RestingEffect
  <1>3. /\ a \in Pollers => batch'[a] = {} /\ stranded' = stranded \cup {d \in Ids : Holds(a, d)}
        /\ \A q \in Pollers \ {a} : batch'[q] = batch[q]
        /\ batch' \in [Pollers -> SUBSET Claims] /\ stranded \subseteq stranded' /\ stranded' \subseteq Ids
        /\ handling' \in [Consumers -> Messages \cup {Nothing}]
        /\ todo' \in [Consumers -> SUBSET (Subs \X {"placeholder", "path"})]
        /\ msg' \in [Messages -> {"unsent", "ready", "out", "acked", "dead", "spent"}]
    BY NotifyAssumption, SMTT(60) DEF CrashConsumer, CrashPoller, history, msgVars, NotifyTypeOK, Redelivered
  <1>4. NotifyTypeOK'
    BY <1>1, <1>2, <1>3 DEF NotifyTypeOK, subVars, rowVars, Live
  <1>5. UNCHANGED <<row, posts, nextId>>
    BY <1>1 DEF rowVars
  <1>6. \A b \in Actors, d \in Ids : Holds(b, d)' => Holds(b, d) /\ b # a
    BY <1>2, <1>3 DEF Holds
  <1>7. \A b \in Actors, d \in Ids, n \in 0..MaxAttempts : Owes(b, d, n)' => Owes(b, d, n)
    <2>1. ASSUME NEW d \in Ids, NEW n \in 0..MaxAttempts, Owes(a, d, n)' PROVE Owes(a, d, n)
      BY <1>2, <1>3, <2>1 DEF Owes
    <2>2. ASSUME NEW b \in Actors, NEW d \in Ids, NEW n \in 0..MaxAttempts, b # a PROVE Owes(b, d, n)' <=> Owes(b, d, n)
      BY <1>2, <1>3, <2>2, SameActor
    <2> QED BY <2>1, <2>2
  <1>8. IdsAreFresh' /\ AtMostTwoAttempts' /\ TwoSchedules'
    BY <1>4, <1>5, <1>6, <1>7, NothingTakenUp
  <1>9. AttemptsRemain'
    BY <1>2, <1>5 DEF AttemptsRemain
  <1>10. ClaimsAreDistinct'
    BY <1>2, <1>3 DEF ClaimsAreDistinct, Actors
  <1>11. ProcessingIsHeld'
    <2> SUFFICES ASSUME NEW d \in Ids, row'[d].status = "processing", d \notin stranded'
                 PROVE  \E p \in Pollers : Holds(p, d)'
      BY DEF ProcessingIsHeld
    <2>1. PICK p \in Pollers : Holds(p, d)
      BY <1>3, <1>5 DEF ProcessingIsHeld
    <2>2. p # a
      BY <1>3, <2>1
    <2> QED BY <1>2, <1>3, <2>1, <2>2 DEF Holds, Actors
  <1> QED BY <1>4, <1>8, <1>9, <1>10, <1>11

\* What is written to the row is what its writer owed it.
LEMMA RecordRows ==
  ASSUME NotifyTypeOK, RowsInv, NEW a \in Actors, RecordAttempt(a)
  PROVE  NotifyTypeOK' /\ RowsInv'
  <1>1. /\ task[a] \in Tasks /\ task[a].stage = "record" /\ task[a] # Idle /\ task[a].id \in Ids
        /\ task[a].verdict \in Verdicts
    BY TaskKinds DEF RecordAttempt, NotifyTypeOK
  <1>2. PICK e \in Ids, v \in Verdicts : e = task[a].id /\ v = task[a].verdict
    BY <1>1
  <1>3. /\ task' \in [Actors -> Tasks] /\ task'[a] = Idle /\ task'[a].stage = "idle"
        /\ \A b \in Actors \ {a} : task'[b] = task[b]
    BY RestingEffect DEF RecordAttempt
  <1>4. /\ UNCHANGED <<subVars, msgVars, nextId, batch, posts, steady, enqueued, missed>>
        /\ faults' \in 0..MaxFaults
        /\ stranded \subseteq stranded' /\ stranded' \subseteq Ids
    BY <1>1 DEF RecordAttempt, Fault, NotifyTypeOK
  <1>5. \/ UNCHANGED row /\ (a \in Pollers => e \in stranded')
        \/ row[e] = NoRow /\ UNCHANGED row
        \/ row[e] # NoRow /\ row' = [row EXCEPT ![e] = [row[e] EXCEPT !.status = v.status, !.attempt = v.attempt, !.retry = v.retry]]
    <2>1. CASE row' = [row EXCEPT ![e] = IF @ = NoRow THEN @
                        ELSE [@ EXCEPT !.status = v.status, !.attempt = v.attempt, !.retry = v.retry]]
      BY <2>1 DEF NotifyTypeOK
    <2>2. CASE UNCHANGED row /\ stranded' = IF a \in Pollers THEN stranded \cup {task[a].id} ELSE stranded
      BY <1>2, <2>2
    <2> QED BY <1>2, <2>1, <2>2 DEF RecordAttempt
  <1>6. v.status \in {"pending", "delivered", "dead_lettered"} /\ v.attempt \in 1..MaxAttempts /\ v.retry \in {"null", "later"}
    BY DEF Verdicts
  <1>7. /\ row' \in [Ids -> Rows] /\ \A d \in Ids \ {e} : row'[d] = row[d]
        /\ row'[e] = row[e] \/ (row'[e].status = v.status /\ row'[e].attempt = v.attempt /\ row[e] # NoRow)
        /\ row[e] = NoRow => row'[e] = NoRow
    <2>1. CASE UNCHANGED row
      BY <2>1 DEF NotifyTypeOK
    <2>2. CASE row[e] # NoRow /\ row' = [row EXCEPT ![e] = [row[e] EXCEPT !.status = v.status, !.attempt = v.attempt, !.retry = v.retry]]
      <3> DEFINE r == [row[e] EXCEPT !.status = v.status, !.attempt = v.attempt, !.retry = v.retry]
      <3>1. row[e] \in Rows /\ row[e] # NoRow
        BY <2>2 DEF NotifyTypeOK
      <3>2. r \in Rows /\ r.status = v.status /\ r.attempt = v.attempt
        BY <1>6, <3>1 DEF Rows
      <3>3. row' = [row EXCEPT ![e] = r]
        BY <2>2
      <3> HIDE DEF r
      <3> QED BY <3>1, <3>2, <3>3 DEF NotifyTypeOK
    <2> QED BY <1>5, <2>1, <2>2
  <1>8. NotifyTypeOK'
    BY <1>3, <1>4, <1>7 DEF NotifyTypeOK, subVars, msgVars, Live
  <1>9. UNCHANGED <<nextId, batch, posts>>
    BY <1>4
  <1>10. \A b \in Actors, d \in Ids : Holds(b, d)' => Holds(b, d)
    BY <1>3, <1>9 DEF Holds
  <1>11. Holds(a, e) /\ ~ Holds(a, e)'
    BY <1>1, <1>2, <1>3, <1>9 DEF Holds, ClaimsAreDistinct
  <1>12. \A b \in Actors, d \in Ids, n \in 0..MaxAttempts : Owes(b, d, n)' => Owes(b, d, n)
    <2>1. ASSUME NEW d \in Ids, NEW n \in 0..MaxAttempts, Owes(a, d, n)' PROVE Owes(a, d, n)
      BY <1>3, <1>9, <2>1 DEF Owes
    <2>2. ASSUME NEW b \in Actors, NEW d \in Ids, NEW n \in 0..MaxAttempts, b # a PROVE Owes(b, d, n)' <=> Owes(b, d, n)
      BY <1>3, <1>9, <2>2, SameActor
    <2> QED BY <2>1, <2>2
  <1>13. v.status = "pending" => v.attempt < MaxAttempts
    BY <1>1, <1>2 DEF AttemptsRemain
  <1>14. AttemptsRemain'
    <2>1. \A d \in Ids : row'[d].status = "pending" => row'[d].attempt < MaxAttempts
      BY <1>7, <1>13 DEF AttemptsRemain
    <2>2. \A b \in Actors : task'[b].stage = "record" /\ task'[b].verdict.status = "pending" => task'[b].verdict.attempt < MaxAttempts
      BY <1>3 DEF AttemptsRemain
    <2> QED BY <2>1, <2>2 DEF AttemptsRemain
  <1>15. ClaimsAreDistinct'
    BY <1>3, <1>9 DEF ClaimsAreDistinct, Actors
  <1>16. ProcessingIsHeld'
    <2> SUFFICES ASSUME NEW d \in Ids, row'[d].status = "processing", d \notin stranded'
                 PROVE  \E p \in Pollers : Holds(p, d)'
      BY DEF ProcessingIsHeld
    <2>1. row'[d] = row[d] /\ d \notin stranded
      BY <1>4, <1>6, <1>7
    <2>2. PICK p \in Pollers : Holds(p, d)
      BY <2>1 DEF ProcessingIsHeld
    <2>3. CASE p # a
      BY <1>3, <1>9, <2>2, <2>3 DEF Holds, Actors
    <2>4. CASE p = a /\ d # e
      BY <1>1, <1>2, <1>9, <2>2, <2>4 DEF Holds
    <2>5. CASE p = a /\ d = e
      <3>1. row[e] # NoRow
        BY <2>1, <2>5 DEF NoRow
      <3>2. row'[e].status = v.status
        <4>1. row' = [row EXCEPT ![e] = [row[e] EXCEPT !.status = v.status, !.attempt = v.attempt, !.retry = v.retry]]
          BY <1>5, <2>5, <3>1
        <4>2. row[e] \in Rows /\ row[e] # NoRow
          BY <3>1 DEF NotifyTypeOK
        <4>3. [row[e] EXCEPT !.status = v.status, !.attempt = v.attempt, !.retry = v.retry].status = v.status
          BY <4>2 DEF Rows
        <4> QED BY <4>1, <4>3 DEF NotifyTypeOK
      <3> QED BY <1>6, <3>2, <2>5
    <2> QED BY <2>3, <2>4, <2>5
  <1>17. IdsAreFresh' /\ AtMostTwoAttempts' /\ TwoSchedules'
    <2>1. CASE row'[e] = row[e] \/ v.status # "pending"
      <3>1. \A d \in Ids : row'[d].status = "pending" => row[d].status = "pending" /\ row'[d].attempt = row[d].attempt
        BY <1>7, <2>1
      <3>2. \A d \in Ids : row[d] = NoRow => row'[d] = NoRow
        BY <1>7
      <3> QED BY <1>8, <1>9, <1>10, <1>12, <3>1, <3>2, NothingTakenUp
    <2>2. CASE row'[e].status = "pending" /\ row'[e].attempt = v.attempt /\ v.status = "pending" /\ row[e] # NoRow
      <3>1. IdsAreFresh'
        BY <1>7, <1>9, <1>10, <2>2 DEF IdsAreFresh
      <3>2. AtMostTwoAttempts'
        <4> SUFFICES ASSUME NEW d \in Ids
                     PROVE  /\ \A x, y, z \in Actors : Holds(x, d)' /\ Holds(y, d)' /\ Holds(z, d)' => x = y \/ y = z \/ x = z
                            /\ row'[d].status = "pending" =>
                                 \A x, y \in Actors : Holds(x, d)' /\ Holds(y, d)' => x = y
          BY DEF AtMostTwoAttempts
        <4>1. \A x, y, z \in Actors : Holds(x, d)' /\ Holds(y, d)' /\ Holds(z, d)' => x = y \/ y = z \/ x = z
          BY <1>10 DEF AtMostTwoAttempts
        <4>2. CASE d # e
          BY <1>7, <1>10, <4>1, <4>2 DEF AtMostTwoAttempts
        <4>3. CASE d = e
          <5>1. ASSUME NEW x \in Actors, NEW y \in Actors, Holds(x, e)', Holds(y, e)' PROVE x = y
            <6>1. Holds(x, e) /\ Holds(y, e) /\ Holds(a, e) /\ x # a /\ y # a
              BY <1>10, <1>11, <5>1
            <6> QED BY <6>1 DEF AtMostTwoAttempts
          <5> QED BY <4>1, <4>3, <5>1
        <4> QED BY <4>2, <4>3
      <3>3. TwoSchedules'
        <4>1. ASSUME NEW d \in Ids, d # e
              PROVE  /\ posts'[d] + RowOwes(d)' <= 2 * MaxAttempts - 1
                     /\ \A x, y \in Actors, m, n \in 0..MaxAttempts :
                          x # y /\ Owes(x, d, m)' /\ Owes(y, d, n)' =>
                            posts'[d] + m + n + RowOwes(d)' <= 2 * MaxAttempts - 1
                     /\ \A x \in Actors, m \in 0..MaxAttempts :
                          Owes(x, d, m)' => posts'[d] + m + RowOwes(d)' <= 2 * MaxAttempts - 1
          <5>1. RowOwes(d)' = RowOwes(d) /\ posts'[d] = posts[d]
            BY <1>7, <1>9, <4>1 DEF RowOwes
          <5> QED BY <1>12, <5>1 DEF TwoSchedules
        <4>2. PICK r \in 0..MaxAttempts : r = MaxAttempts - v.attempt
          BY <1>6
        <4>3. RowOwes(e)' = r /\ posts'[e] = posts[e]
          BY <1>9, <2>2, <4>2 DEF RowOwes
        <4>4. Owes(a, e, r)
          BY <1>1, <1>2, <2>2, <4>2 DEF Owes
        <4>5. posts[e] \in Nat /\ RowOwes(e) \in Nat
          BY RowOwesTyped
        <4>6. posts[e] + r <= 2 * MaxAttempts - 1
          <5>1. posts[e] + r + RowOwes(e) <= 2 * MaxAttempts - 1
            BY <4>4 DEF TwoSchedules
          <5> QED BY <4>5, <5>1
        <4>7. ASSUME NEW x \in Actors, NEW m \in 0..MaxAttempts, Owes(x, e, m)'
              PROVE  posts[e] + m + r <= 2 * MaxAttempts - 1
          <5>1. CASE m = 0
            BY <4>5, <4>6, <5>1
          <5>2. CASE m # 0
            <6>1. Holds(x, e)'
              BY <1>8, <4>7, <5>2, OwingHeld
            <6>2. x # a
              BY <1>11, <6>1
            <6>3. posts[e] + m + r + RowOwes(e) <= 2 * MaxAttempts - 1
              BY <1>12, <4>4, <4>7, <6>2 DEF TwoSchedules
            <6> QED BY <4>5, <6>3
          <5> QED BY <5>1, <5>2
        <4>8. ASSUME NEW x \in Actors, NEW y \in Actors, NEW m \in 0..MaxAttempts, NEW n \in 0..MaxAttempts,
                     x # y, Owes(x, e, m)', Owes(y, e, n)'
              PROVE  posts[e] + m + n + r <= 2 * MaxAttempts - 1
          <5>1. m = 0 \/ n = 0
            <6> SUFFICES ASSUME m # 0, n # 0 PROVE FALSE
              OBVIOUS
            <6>1. Holds(x, e)' /\ Holds(y, e)'
              BY <1>8, <4>8, OwingHeld
            <6>2. row'[e].status = "pending" => x = y
              BY <3>2, <6>1 DEF AtMostTwoAttempts
            <6> QED BY <2>2, <4>8, <6>2
          <5>2. posts[e] + m + r <= 2 * MaxAttempts - 1 /\ posts[e] + n + r <= 2 * MaxAttempts - 1
            BY <4>7, <4>8
          <5> QED BY <4>5, <5>1, <5>2
        <4> QED BY <4>1, <4>3, <4>6, <4>7, <4>8 DEF TwoSchedules
      <3> QED BY <3>1, <3>2, <3>3
    <2> QED BY <1>7, <2>1, <2>2
  <1> QED BY <1>8, <1>14, <1>15, <1>16, <1>17

\* A POST is one of those that its sender owed.
LEMMA SendRows ==
  ASSUME NotifyTypeOK, RowsInv, NEW a \in Actors, NEW answer \in Answers, Send(a, answer)
  PROVE  NotifyTypeOK' /\ RowsInv'
  <1>1. /\ task[a].stage = "send" /\ task[a] \in Tasks /\ task[a].attempt \in 1..MaxAttempts
        /\ task[a] # Idle /\ task[a].id \in Ids
    BY TaskKinds DEF Send, NotifyTypeOK
  <1>2. PICK v \in Verdicts, e \in Ids, k \in 1..MaxAttempts :
          /\ v = Classify(answer, task[a].attempt) /\ e = task[a].id /\ k = task[a].attempt
          /\ v.attempt = k /\ (v.status = "pending" => k < MaxAttempts)
    BY <1>1, ClassifyEffect
  <1>3. /\ task' \in [Actors -> Tasks] /\ \A b \in Actors \ {a} : task'[b] = task[b]
        /\ task'[a].stage = "record" /\ task'[a].id = e /\ task'[a].verdict = v /\ task'[a] # Idle
    BY <1>1, <1>2, DecideEffect DEF Send
  <1>4. /\ posts' = [posts EXCEPT ![e] = @ + 1]
        /\ UNCHANGED <<subVars, msgVars, rowVars, batch, faults, steady, enqueued, missed, stranded>>
    BY <1>2 DEF Send
  <1>5. posts' \in [Ids -> Nat] /\ posts'[e] = posts[e] + 1 /\ \A d \in Ids \ {e} : posts'[d] = posts[d]
    BY <1>4 DEF NotifyTypeOK
  <1>6. NotifyTypeOK'
    BY <1>3, <1>4, <1>5 DEF NotifyTypeOK, subVars, msgVars, rowVars, Live
  <1>7. UNCHANGED <<row, nextId, batch, stranded>>
    BY <1>4 DEF rowVars
  <1>8. \A b \in Actors, d \in Ids : Holds(b, d)' <=> Holds(b, d)
    BY <1>1, <1>2, <1>3, <1>7 DEF Holds
  <1>9. Holds(a, e)
    BY <1>1, <1>2 DEF Holds
  <1>10. IdsAreFresh'
    BY <1>5, <1>7, <1>8, <1>9 DEF IdsAreFresh
  <1>11. AttemptsRemain'
    <2>1. \A b \in Actors : task'[b].stage = "record" /\ task'[b].verdict.status = "pending" => task'[b].verdict.attempt < MaxAttempts
      BY <1>2, <1>3 DEF AttemptsRemain
    <2> QED BY <1>7, <2>1 DEF AttemptsRemain
  <1>12. ClaimsAreDistinct'
    BY <1>1, <1>2, <1>3, <1>7 DEF ClaimsAreDistinct, Actors
  <1>13. AtMostTwoAttempts'
    BY <1>7, <1>8 DEF AtMostTwoAttempts
  <1>14. ProcessingIsHeld'
    BY <1>7, <1>8 DEF ProcessingIsHeld, Actors
  <1>15. TwoSchedules'
    <2>1. \A d \in Ids : RowOwes(d)' = RowOwes(d)
      BY <1>7 DEF RowOwes
    <2>2. \A b \in Actors \ {a}, d \in Ids, n \in 0..MaxAttempts : Owes(b, d, n)' <=> Owes(b, d, n)
      <3>1. ASSUME NEW b \in Actors \ {a}, NEW d \in Ids, NEW n \in 0..MaxAttempts PROVE Owes(b, d, n)' <=> Owes(b, d, n)
        BY <1>3, <1>7, SameActor
      <3> QED BY <3>1
    <2>3. ASSUME NEW d \in Ids, d # e
          PROVE  /\ posts'[d] + RowOwes(d)' <= 2 * MaxAttempts - 1
                 /\ \A x, y \in Actors, m, n \in 0..MaxAttempts :
                      x # y /\ Owes(x, d, m)' /\ Owes(y, d, n)' =>
                        posts'[d] + m + n + RowOwes(d)' <= 2 * MaxAttempts - 1
                 /\ \A x \in Actors, m \in 0..MaxAttempts :
                      Owes(x, d, m)' => posts'[d] + m + RowOwes(d)' <= 2 * MaxAttempts - 1
      <3>1. \A n \in 0..MaxAttempts : Owes(a, d, n)' => Owes(a, d, n)
        BY <1>1, <1>2, <1>3, <1>7, <2>3 DEF Owes
      <3>2. \A x \in Actors, n \in 0..MaxAttempts : Owes(x, d, n)' => Owes(x, d, n)
        BY <2>2, <3>1
      <3>3. posts'[d] = posts[d] /\ RowOwes(d)' = RowOwes(d)
        BY <1>5, <2>1, <2>3
      <3> QED BY <3>2, <3>3 DEF TwoSchedules
    <2>4. PICK r \in 1..MaxAttempts : r = MaxAttempts - k + 1
      BY <1>2
    <2>5. Owes(a, e, r)
      BY <1>1, <1>2, <2>4 DEF Owes
    <2>6. \A n \in 0..MaxAttempts : Owes(a, e, n)' => n + 1 <= r
      <3> SUFFICES ASSUME NEW n \in 0..MaxAttempts, Owes(a, e, n)' PROVE n + 1 <= r
        OBVIOUS
      <3>1. n = 0 \/ n = MaxAttempts - k
        BY <1>1, <1>2, <1>3, <1>7 DEF Owes, ClaimsAreDistinct
      <3> QED BY <2>4, <3>1
    <2>7. posts[e] \in Nat /\ RowOwes(e) \in Nat /\ posts'[e] = posts[e] + 1 /\ RowOwes(e)' = RowOwes(e)
      BY <1>5, <2>1, RowOwesTyped
    <2>8. posts[e] + r + RowOwes(e) <= 2 * MaxAttempts - 1
      BY <2>4, <2>5 DEF TwoSchedules
    <2>9. \A x \in Actors, n \in 0..MaxAttempts : x # a /\ Owes(x, e, n) => posts[e] + r + n + RowOwes(e) <= 2 * MaxAttempts - 1
      BY <2>4, <2>5 DEF TwoSchedules
    <2>10. posts'[e] + RowOwes(e)' <= 2 * MaxAttempts - 1
      BY <2>4, <2>7, <2>8
    <2>11. ASSUME NEW x \in Actors, NEW m \in 0..MaxAttempts, Owes(x, e, m)'
           PROVE  posts'[e] + m + RowOwes(e)' <= 2 * MaxAttempts - 1
      <3>1. CASE x = a
        <4>1. m + 1 <= r
          BY <2>6, <2>11, <3>1
        <4> QED BY <2>4, <2>7, <2>8, <4>1
      <3>2. CASE x # a
        <4>1. posts[e] + r + m + RowOwes(e) <= 2 * MaxAttempts - 1
          BY <2>2, <2>9, <2>11, <3>2
        <4> QED BY <2>4, <2>7, <4>1
      <3> QED BY <3>1, <3>2
    <2>12. ASSUME NEW x \in Actors, NEW y \in Actors, NEW m \in 0..MaxAttempts, NEW n \in 0..MaxAttempts,
                  x # y, Owes(x, e, m)', Owes(y, e, n)'
           PROVE  posts'[e] + m + n + RowOwes(e)' <= 2 * MaxAttempts - 1
      <3>1. CASE m = 0
        BY <2>7, <2>11, <2>12, <3>1
      <3>2. CASE n = 0
        BY <2>7, <2>11, <2>12, <3>2
      <3>3. CASE m # 0 /\ n # 0
        <4>1. Holds(x, e) /\ Holds(y, e)
          BY <1>6, <1>8, <2>12, <3>3, OwingHeld
        <4>2. x = a \/ y = a
          BY <1>9, <2>12, <4>1 DEF AtMostTwoAttempts
        <4>3. CASE x = a
          <5>1. m + 1 <= r
            BY <2>6, <2>12, <4>3
          <5>2. posts[e] + r + n + RowOwes(e) <= 2 * MaxAttempts - 1
            BY <2>2, <2>9, <2>12, <4>3
          <5> QED BY <2>4, <2>7, <5>1, <5>2
        <4>4. CASE y = a
          <5>1. n + 1 <= r
            BY <2>6, <2>12, <4>4
          <5>2. posts[e] + r + m + RowOwes(e) <= 2 * MaxAttempts - 1
            BY <2>2, <2>9, <2>12, <4>4
          <5> QED BY <2>4, <2>7, <5>1, <5>2
        <4> QED BY <4>2, <4>3, <4>4
      <3> QED BY <3>1, <3>2, <3>3
    <2> QED BY <2>3, <2>10, <2>11, <2>12 DEF TwoSchedules
  <1> QED BY <1>6, <1>10, <1>11, <1>12, <1>13, <1>14, <1>15

\* A claim takes over what the row owed.
LEMMA ClaimRows ==
  ASSUME NotifyTypeOK, RowsInv, NEW p \in Pollers, NEW S \in SUBSET Ids, ClaimDue(p, S)
  PROVE  NotifyTypeOK' /\ RowsInv'
  <1> DEFINE C == {[id |-> d, sub |-> row[d].sub, attempt |-> row[d].attempt] : d \in S}
  <1>1. p \in Actors /\ task[p] = Idle /\ batch[p] = {}
    BY DEF ClaimDue, Actors
  <1>2. \A d \in S : d \in Ids /\ row[d].status = "pending" /\ row[d] \in Rows /\ row[d] # NoRow
                     /\ row[d].attempt \in 1..(MaxAttempts - 1) /\ row[d].sub \in Subs
    <2>1. \A d \in S : d \in Ids /\ row[d].status = "pending" /\ row[d] \in Rows
      BY DEF ClaimDue, Due, NotifyTypeOK
    <2>2. \A d \in S : row[d] # NoRow /\ row[d].attempt \in 1..MaxAttempts /\ row[d].sub \in Subs
      BY <2>1, RowKinds
    <2>3. \A d \in S : row[d].attempt < MaxAttempts
      BY <2>1 DEF AttemptsRemain
    <2> QED BY <2>1, <2>2, <2>3
  <1>3. /\ C \subseteq Claims
        /\ \A claim \in C : claim.id \in S /\ claim.attempt = row[claim.id].attempt /\ claim.sub = row[claim.id].sub
        /\ \A d \in S : \E claim \in C : claim.id = d
        /\ \A claim, other \in C : other.id = claim.id => other = claim
    <2>1. \A claim \in C : \E d \in S : claim = [id |-> d, sub |-> row[d].sub, attempt |-> row[d].attempt]
      OBVIOUS
    <2>2. \A claim \in C : claim.id \in S /\ claim.attempt = row[claim.id].attempt /\ claim.sub = row[claim.id].sub
      BY <2>1
    <2>3. \A claim \in C : claim = [id |-> claim.id, sub |-> row[claim.id].sub, attempt |-> row[claim.id].attempt]
      BY <2>1
    <2>4. C \subseteq Claims
      BY <1>2, <2>2, <2>3 DEF Claims
    <2>5. ASSUME NEW d \in S PROVE \E claim \in C : claim.id = d
      <3>1. [id |-> d, sub |-> row[d].sub, attempt |-> row[d].attempt] \in C
        OBVIOUS
      <3> HIDE DEF C
      <3> QED BY <3>1
    <2>6. \A claim, other \in C : other.id = claim.id => other = claim
      <3> HIDE DEF C
      <3> QED BY <2>3
    <2> QED BY <2>2, <2>4, <2>5, <2>6
  <1>4. /\ UNCHANGED <<subVars, msgVars, nextId, task, faults, history>>
        /\ batch' = [batch EXCEPT ![p] = C]
        /\ row' = [d \in Ids |-> IF d \in S THEN [row[d] EXCEPT !.status = "processing"] ELSE row[d]]
    BY DEF ClaimDue
  <1> HIDE DEF C
  <1>5. batch' \in [Pollers -> SUBSET Claims] /\ batch'[p] = C /\ \A q \in Pollers \ {p} : batch'[q] = batch[q]
    BY <1>3, <1>4 DEF NotifyTypeOK
  <1>6. /\ row' \in [Ids -> Rows] /\ \A d \in Ids \ S : row'[d] = row[d]
        /\ \A d \in S : row'[d].status = "processing"
    BY <1>2, <1>4 DEF NotifyTypeOK, Rows
  <1>7. NotifyTypeOK'
    BY <1>4, <1>5, <1>6 DEF NotifyTypeOK, subVars, msgVars, history, Live
  <1>8. UNCHANGED <<task, posts, nextId, stranded>>
    BY <1>4 DEF history
  <1>9. \A d \in Ids : ~ Holds(p, d)
    BY <1>1 DEF Holds
  <1>10. \A d \in Ids : Holds(p, d)' <=> d \in S
    BY <1>1, <1>3, <1>5, <1>8 DEF Holds
  <1>11. \A b \in Actors, d \in Ids : b # p => (Holds(b, d)' <=> Holds(b, d))
    BY <1>5, <1>8 DEF Holds
  <1>12. \A d \in S : d \notin {f \in Ids : f >= nextId}
    BY <1>2 DEF IdsAreFresh
  <1>13. IdsAreFresh'
    BY <1>6, <1>8, <1>10, <1>11, <1>12 DEF IdsAreFresh
  <1>14. AttemptsRemain'
    <2>1. \A d \in Ids : row'[d].status = "pending" => row'[d].attempt < MaxAttempts
      BY <1>6 DEF AttemptsRemain
    <2> QED BY <1>8, <2>1 DEF AttemptsRemain
  <1>15. ClaimsAreDistinct'
    BY <1>1, <1>3, <1>5, <1>8 DEF ClaimsAreDistinct
  <1>16. AtMostTwoAttempts'
    <2> SUFFICES ASSUME NEW d \in Ids
                 PROVE  /\ \A x, y, z \in Actors : Holds(x, d)' /\ Holds(y, d)' /\ Holds(z, d)' => x = y \/ y = z \/ x = z
                        /\ row'[d].status = "pending" =>
                             \A x, y \in Actors : Holds(x, d)' /\ Holds(y, d)' => x = y
      BY DEF AtMostTwoAttempts
    <2>1. CASE d \in S
      <3>1. \A x, y \in Actors : Holds(x, d) /\ Holds(y, d) => x = y
        BY <1>2, <2>1 DEF AtMostTwoAttempts
      <3>2. \A x \in Actors : Holds(x, d)' => x = p \/ Holds(x, d)
        BY <1>11
      <3>3. row'[d].status # "pending"
        BY <1>6, <2>1
      <3> QED BY <3>1, <3>2, <3>3
    <2>2. CASE d \notin S
      <3>1. \A x \in Actors : Holds(x, d)' => Holds(x, d)
        BY <1>10, <1>11, <2>2
      <3>2. row'[d] = row[d]
        BY <1>6, <2>2
      <3> QED BY <3>1, <3>2 DEF AtMostTwoAttempts
    <2> QED BY <2>1, <2>2
  <1>17. ProcessingIsHeld'
    <2> SUFFICES ASSUME NEW d \in Ids, row'[d].status = "processing", d \notin stranded'
                 PROVE  \E q \in Pollers : Holds(q, d)'
      BY DEF ProcessingIsHeld
    <2>1. CASE d \in S
      BY <1>10, <2>1
    <2>2. CASE d \notin S
      <3>1. PICK q \in Pollers : Holds(q, d)
        BY <1>6, <1>8, <2>2 DEF ProcessingIsHeld
      <3> QED BY <1>9, <1>11, <3>1 DEF Actors
    <2> QED BY <2>1, <2>2
  <1>18. TwoSchedules'
    <2>1. ASSUME NEW b \in Actors \ {p}, NEW d \in Ids, NEW n \in 0..MaxAttempts PROVE Owes(b, d, n)' <=> Owes(b, d, n)
      BY <1>5, <1>8, <2>1, SameActor
    <2>2. ASSUME NEW d \in Ids, NEW n \in 0..MaxAttempts, Owes(p, d, n)'
          PROVE  n = 0 \/ (d \in S /\ n = MaxAttempts - row[d].attempt)
      <3>1. task'[p].stage = "idle"
        BY <1>1, <1>8 DEF Idle
      <3>2. n = 0 \/ \E claim \in C : claim.id = d /\ n = MaxAttempts - claim.attempt
        BY <1>5, <2>2, <3>1 DEF Owes
      <3> QED BY <1>3, <3>2
    <2> SUFFICES ASSUME NEW d \in Ids
                 PROVE  /\ posts'[d] + RowOwes(d)' <= 2 * MaxAttempts - 1
                        /\ \A x, y \in Actors, m, n \in 0..MaxAttempts :
                             x # y /\ Owes(x, d, m)' /\ Owes(y, d, n)' =>
                               posts'[d] + m + n + RowOwes(d)' <= 2 * MaxAttempts - 1
                        /\ \A x \in Actors, m \in 0..MaxAttempts :
                             Owes(x, d, m)' => posts'[d] + m + RowOwes(d)' <= 2 * MaxAttempts - 1
      BY DEF TwoSchedules
    <2>3. posts[d] \in Nat /\ RowOwes(d) \in Nat /\ posts'[d] = posts[d]
      BY <1>8, RowOwesTyped
    <2>4. posts[d] + RowOwes(d) <= 2 * MaxAttempts - 1
      BY DEF TwoSchedules
    <2>5. ASSUME NEW x \in Actors, NEW m \in 0..MaxAttempts, Owes(x, d, m)
          PROVE  posts[d] + m + RowOwes(d) <= 2 * MaxAttempts - 1
      BY <2>5 DEF TwoSchedules
    <2>6. CASE d \in S
      <3>1. RowOwes(d)' = 0 /\ RowOwes(d) = MaxAttempts - row[d].attempt
        BY <1>2, <1>6, <2>6 DEF RowOwes
      <3>2. \A x, y \in Actors, m, n \in 0..MaxAttempts :
              x # p /\ y # p /\ x # y /\ Owes(x, d, m) /\ Owes(y, d, n) => m = 0 \/ n = 0
        <4> SUFFICES ASSUME NEW x \in Actors, NEW y \in Actors, NEW m \in 0..MaxAttempts, NEW n \in 0..MaxAttempts,
                            x # y, Owes(x, d, m), Owes(y, d, n), m # 0, n # 0
                     PROVE  FALSE
          OBVIOUS
        <4>1. Holds(x, d) /\ Holds(y, d)
          BY OwingHolds
        <4> QED BY <1>2, <2>6, <4>1 DEF AtMostTwoAttempts
      <3>3. ASSUME NEW x \in Actors, NEW m \in 0..MaxAttempts, Owes(x, d, m)'
            PROVE  IF x = p THEN m = 0 \/ m = RowOwes(d) ELSE Owes(x, d, m)
        BY <2>1, <2>2, <3>1, <3>3
      <3>4. ASSUME NEW x \in Actors, NEW m \in 0..MaxAttempts, Owes(x, d, m)'
            PROVE  posts[d] + m <= 2 * MaxAttempts - 1
        BY <2>3, <2>4, <2>5, <3>3, <3>4
      <3>5. ASSUME NEW x \in Actors, NEW y \in Actors, NEW m \in 0..MaxAttempts, NEW n \in 0..MaxAttempts,
                   x # y, Owes(x, d, m)', Owes(y, d, n)'
            PROVE  posts[d] + m + n <= 2 * MaxAttempts - 1
        <4>1. CASE m = 0 \/ n = 0
          BY <2>3, <3>4, <3>5, <4>1
        <4>2. CASE m # 0 /\ n # 0
          <5>1. x = p \/ y = p
            BY <3>2, <3>3, <3>5, <4>2
          <5>2. CASE x = p
            <6>1. m = RowOwes(d) /\ Owes(y, d, n)
              BY <3>3, <3>5, <4>2, <5>2
            <6>2. posts[d] + n + RowOwes(d) <= 2 * MaxAttempts - 1
              BY <2>5, <6>1
            <6> QED BY <2>3, <6>1, <6>2
          <5>3. CASE y = p
            <6>1. n = RowOwes(d) /\ Owes(x, d, m)
              BY <3>3, <3>5, <4>2, <5>3
            <6>2. posts[d] + m + RowOwes(d) <= 2 * MaxAttempts - 1
              BY <2>5, <6>1
            <6> QED BY <2>3, <6>1, <6>2
          <5> QED BY <5>1, <5>2, <5>3
        <4> QED BY <4>1, <4>2
      <3>6. posts[d] <= 2 * MaxAttempts - 1
        BY <2>3, <2>4
      <3> QED BY <2>3, <3>1, <3>4, <3>5, <3>6
    <2>7. CASE d \notin S
      <3>1. RowOwes(d)' = RowOwes(d)
        BY <1>6, <2>7 DEF RowOwes
      <3>2. ASSUME NEW x \in Actors, NEW m \in 0..MaxAttempts, Owes(x, d, m)' PROVE Owes(x, d, m)
        <4>1. CASE x = p
          BY <2>2, <2>7, <3>2, <4>1 DEF Owes
        <4> QED BY <2>1, <3>2, <4>1
      <3> QED BY <2>3, <3>1, <3>2 DEF TwoSchedules
    <2> QED BY <2>6, <2>7
  <1> QED BY <1>7, <1>13, <1>14, <1>15, <1>16, <1>17, <1>18

\* A new row starts with the consumer's turn and the one that the next claim takes.
LEMMA EnqueueRows ==
  ASSUME NotifyTypeOK, RowsInv, NEW c \in Consumers, NEW s \in Subs, NEW ref \in {"placeholder", "path"},
         Enqueue(c, s, ref)
  PROVE  NotifyTypeOK' /\ RowsInv'
  <1>1. /\ handling[c] \in Messages /\ task[c] = Idle /\ c \in Actors /\ c \notin Pollers
        /\ todo' = [todo EXCEPT ![c] = @ \ {<<s, ref>>}]
        /\ UNCHANGED <<subVars, event, msg, delivered, handling, batch, posts, steady, stranded>>
    BY NotifyAssumption DEF Enqueue, Actors, NotifyTypeOK
  <1>2. todo' \in [Consumers -> SUBSET (Subs \X {"placeholder", "path"})]
    BY <1>1 DEF NotifyTypeOK
  <1>3. CASE UNCHANGED <<rowVars, task>>
    <2>1. enqueued' \subseteq Messages \X Subs /\ missed' \subseteq Messages \X Subs /\ faults' \in 0..MaxFaults
      BY <1>1, <1>3 DEF Enqueue, NotifyTypeOK, Fault
    <2>2. NotifyTypeOK'
      BY <1>1, <1>2, <1>3, <2>1 DEF NotifyTypeOK, subVars, rowVars, Live
    <2>3. UNCHANGED <<row, nextId, batch, task, posts, stranded>>
      BY <1>1, <1>3 DEF rowVars
    <2> QED BY <2>2, <2>3, RowsUnchanged
  <1>4. CASE /\ nextId \in Ids
             /\ row' = [row EXCEPT ![nextId] = [status |-> "pending", attempt |-> 1, retry |-> "null", sub |-> s]]
             /\ nextId' = nextId + 1
             /\ Working(c, nextId, s, ref, 1)
             /\ enqueued' = enqueued \cup {<<handling[c], s>>}
             /\ UNCHANGED <<faults, missed>>
    <2>1. PICK e \in Ids : e = nextId
      BY <1>4
    <2>2. /\ row' \in [Ids -> Rows] /\ \A d \in Ids \ {e} : row'[d] = row[d]
          /\ row'[e].status = "pending" /\ row'[e].attempt = 1
      <3> DEFINE r == [status |-> "pending", attempt |-> 1, retry |-> "null", sub |-> s]
      <3>1. r \in Rows /\ r.status = "pending" /\ r.attempt = 1
        BY DEF Rows
      <3>2. row' = [row EXCEPT ![e] = r]
        BY <1>4, <2>1
      <3> HIDE DEF r
      <3> QED BY <3>1, <3>2 DEF NotifyTypeOK
    <2>3. /\ task' \in [Actors -> Tasks] /\ \A b \in Actors \ {c} : task'[b] = task[b]
          /\ task'[c].stage = "send" /\ task'[c].id = e /\ task'[c].attempt = 1 /\ task'[c] # Idle
      BY <1>1, <1>4, <2>1, WorkingEffect
    <2>4. nextId' = e + 1 /\ nextId' \in 1..(MaxRows + 1)
      BY <1>4, <2>1 DEF Ids
    <2>5. enqueued' \subseteq Messages \X Subs
      BY <1>1, <1>4 DEF NotifyTypeOK
    <2>6. NotifyTypeOK'
      BY <1>1, <1>2, <1>4, <2>2, <2>3, <2>4, <2>5 DEF NotifyTypeOK, subVars, Live
    <2>7. UNCHANGED <<batch, posts, stranded>>
      BY <1>1
    <2>8. posts[e] = 0 /\ row[e] = NoRow /\ \A b \in Actors : ~ Holds(b, e)
      BY <2>1 DEF IdsAreFresh, Ids
    <2>9. \A d \in Ids : Holds(c, d)' <=> d = e
      BY <1>1, <2>3 DEF Holds
    <2>10. \A d \in Ids : ~ Holds(c, d)
      BY <1>1 DEF Holds
    <2>11. \A b \in Actors, d \in Ids : b # c => (Holds(b, d)' <=> Holds(b, d))
      BY <2>3, <2>7 DEF Holds
    <2>12. IdsAreFresh'
      <3> SUFFICES ASSUME NEW d \in Ids, d >= e + 1
                   PROVE  row'[d] = NoRow /\ posts'[d] = 0 /\ \A b \in Actors : ~ Holds(b, d)'
        BY <2>4 DEF IdsAreFresh
      <3>1. d # e /\ d >= nextId
        BY <2>1 DEF Ids
      <3>2. row[d] = NoRow /\ posts[d] = 0 /\ \A b \in Actors : ~ Holds(b, d)
        BY <3>1 DEF IdsAreFresh
      <3> QED BY <2>2, <2>7, <2>9, <2>11, <3>1, <3>2
    <2>13. AttemptsRemain'
      <3>1. \A d \in Ids : row'[d].status = "pending" => row'[d].attempt < MaxAttempts
        BY <2>2 DEF AttemptsRemain
      <3>2. \A b \in Actors : task'[b].stage = "record" /\ task'[b].verdict.status = "pending" => task'[b].verdict.attempt < MaxAttempts
        BY <2>3 DEF AttemptsRemain
      <3> QED BY <3>1, <3>2 DEF AttemptsRemain
    <2>14. ClaimsAreDistinct'
      BY <1>1, <2>3, <2>7 DEF ClaimsAreDistinct, Actors
    <2>15. AtMostTwoAttempts'
      <3> SUFFICES ASSUME NEW d \in Ids
                   PROVE  /\ \A x, y, z \in Actors : Holds(x, d)' /\ Holds(y, d)' /\ Holds(z, d)' => x = y \/ y = z \/ x = z
                          /\ row'[d].status = "pending" =>
                               \A x, y \in Actors : Holds(x, d)' /\ Holds(y, d)' => x = y
        BY DEF AtMostTwoAttempts
      <3>1. CASE d = e
        BY <2>8, <2>11, <3>1
      <3>2. CASE d # e
        BY <2>2, <2>9, <2>11, <3>2 DEF AtMostTwoAttempts
      <3> QED BY <3>1, <3>2
    <2>16. ProcessingIsHeld'
      <3> SUFFICES ASSUME NEW d \in Ids, row'[d].status = "processing", d \notin stranded'
                   PROVE  \E q \in Pollers : Holds(q, d)'
        BY DEF ProcessingIsHeld
      <3>1. row'[d] = row[d]
        BY <2>2
      <3>2. PICK q \in Pollers : Holds(q, d)
        BY <2>7, <3>1 DEF ProcessingIsHeld
      <3> QED BY <1>1, <2>11, <3>2 DEF Actors
    <2>17. TwoSchedules'
      <3>1. ASSUME NEW d \in Ids, d # e
            PROVE  /\ posts'[d] + RowOwes(d)' <= 2 * MaxAttempts - 1
                   /\ \A x, y \in Actors, m, n \in 0..MaxAttempts :
                        x # y /\ Owes(x, d, m)' /\ Owes(y, d, n)' =>
                          posts'[d] + m + n + RowOwes(d)' <= 2 * MaxAttempts - 1
                   /\ \A x \in Actors, m \in 0..MaxAttempts :
                        Owes(x, d, m)' => posts'[d] + m + RowOwes(d)' <= 2 * MaxAttempts - 1
        <4>1. \A n \in 0..MaxAttempts : Owes(c, d, n)' => n = 0
          BY <1>1, <2>3, <3>1 DEF Owes
        <4>2. ASSUME NEW b \in Actors \ {c}, NEW n \in 0..MaxAttempts PROVE Owes(b, d, n)' <=> Owes(b, d, n)
          BY <2>3, <2>7, SameActor
        <4>3. \A b \in Actors, n \in 0..MaxAttempts : Owes(b, d, n)' => Owes(b, d, n)
          <5>1. Owes(c, d, 0)
            BY DEF Owes
          <5> QED BY <4>1, <4>2, <5>1
        <4>4. posts'[d] = posts[d] /\ RowOwes(d)' = RowOwes(d)
          BY <2>2, <2>7, <3>1 DEF RowOwes
        <4> QED BY <4>3, <4>4 DEF TwoSchedules
      <3>2. posts'[e] = 0 /\ RowOwes(e)' = MaxAttempts - 1
        BY <2>2, <2>7, <2>8 DEF RowOwes
      <3>3. ASSUME NEW b \in Actors, NEW n \in 0..MaxAttempts, Owes(b, e, n)', b # c PROVE n = 0
        BY <2>6, <2>8, <2>11, <3>3, OwingHeld
      <3>4. \A x, y \in Actors, m, n \in 0..MaxAttempts : x # y /\ Owes(x, e, m)' /\ Owes(y, e, n)' => m = 0 \/ n = 0
        BY <3>3
      <3> QED BY <3>1, <3>2, <3>4 DEF TwoSchedules
    <2> QED BY <2>6, <2>12, <2>13, <2>14, <2>15, <2>16, <2>17
  <1> QED BY <1>3, <1>4 DEF Enqueue

\* A delivery is worked on by two at most and sent a bounded number of times, whatever happens.
LEMMA RowSteps ==
  ASSUME NotifyTypeOK, RowsInv, DeliveriesRemain, NotifyNext
  PROVE  NotifyTypeOK' /\ RowsInv'
  <1>1. CASE UserStep \/ HandlerStep
    BY <1>1, UserSteps, DeletionSteps DEF UserStep, HandlerStep
  <1>2. ASSUME NEW a \in Actors, AttemptStep(a) PROVE NotifyTypeOK' /\ RowsInv'
    BY <1>2, GiveUpRows, RecordRows, SendRows DEF AttemptStep
  <1>4. ASSUME NEW c \in Consumers, ConsumerStep(c) PROVE NotifyTypeOK' /\ RowsInv'
    BY <1>2, <1>4, ConsumerSteps, EnqueueRows DEF ConsumerStep, Actors
  <1>5. ASSUME NEW p \in Pollers, PollerStep(p) PROVE NotifyTypeOK' /\ RowsInv'
    BY <1>2, <1>5, ClaimRows, LookupRows DEF PollerStep, Actors
  <1>6. CASE FaultStep
    BY <1>6, ConsumerSteps, CrashRows DEF FaultStep, Actors
  <1>7. ASSUME NEW d \in Ids, BackoffPasses(d) PROVE NotifyTypeOK' /\ RowsInv'
    BY <1>7, BackoffRows
  <1>8. ASSUME NEW m \in Messages, NEW e \in Events, Publish(m, e) PROVE NotifyTypeOK' /\ RowsInv'
    BY <1>8, PublishRows
  <1> QED BY <1>1, <1>4, <1>5, <1>6, <1>7, <1>8 DEF NotifyNext

(***************************************************************************)
(* Events                                                                  *)
(***************************************************************************)
USE DEF EventsInv

\* Steps that leave the messages and the lists alone, and only take names off the record.
LEMMA EventsUnchanged ==
  ASSUME EventsInv, UNCHANGED <<event, msg, delivered, handling, todo>>,
         \A m \in Messages : steady'[m] \subseteq steady[m] \cap enabled',
         enqueued \subseteq enqueued', missed \subseteq missed', NotifyTypeOK
  PROVE  EventsInv'
  <1>1. DeliveriesRemain'
    BY DEF DeliveriesRemain
  <1>2. EventsAreSent'
    BY DEF EventsAreSent, Wants
  <1>3. ListIsComplete'
    BY DEF ListIsComplete, NotifyTypeOK
  <1>4. AckedEventIsOwed'
    BY DEF AckedEventIsOwed
  <1> QED BY <1>1, <1>2, <1>3, <1>4

LEMMA UserEvents ==
  ASSUME NotifyTypeOK, EventsInv, UserStep \/ HandlerStep
  PROVE  EventsInv'
  <1>1. PICK s \in Subs : \/ Create(s) \/ Delete(s) \/ StoreSecret(s) \/ SetSecretRef(s)
                          \/ \E on \in BOOLEAN : SetEnabled(s, on)
    BY DEF UserStep, HandlerStep
  <1>2. \A m \in Messages : steady[m] \subseteq enabled
    BY DEF EventsAreSent
  <1>3. /\ UNCHANGED <<event, msg, delivered, handling, todo, enqueued, missed>>
        /\ \/ steady' = steady /\ enabled \subseteq enabled'
           \/ /\ steady' = [m \in Messages |-> steady[m] \ {s}]
              /\ enabled \ {s} \subseteq enabled'
    <2>1. CASE Create(s)
      BY <2>1 DEF Create, msgVars, history
    <2>2. CASE Delete(s)
      BY <2>2 DEF Delete, DeleteSubscription, msgVars
    <2>3. CASE StoreSecret(s)
      BY <2>3 DEF StoreSecret, DeleteSubscription, msgVars, history
    <2>4. CASE SetSecretRef(s)
      BY <2>4 DEF SetSecretRef, msgVars, history
    <2>5. ASSUME NEW on \in BOOLEAN, SetEnabled(s, on)
          PROVE  /\ UNCHANGED <<event, msg, delivered, handling, todo, enqueued, missed>>
                 /\ steady' = [m \in Messages |-> steady[m] \ {s}] /\ enabled \ {s} \subseteq enabled'
      BY <2>5 DEF SetEnabled, msgVars
    <2> QED BY <1>1, <2>1, <2>2, <2>3, <2>4, <2>5
  <1>4. \A m \in Messages : steady'[m] \subseteq steady[m] \cap enabled'
    BY <1>2, <1>3
  <1> QED BY <1>3, <1>4, EventsUnchanged

\* Attempts, polls and crashes of pollers.
LEMMA DeliveryEvents ==
  ASSUME NotifyTypeOK, EventsInv,
         \/ \E a \in Actors : AttemptStep(a)
         \/ \E p \in Pollers : PollerStep(p) \/ CrashPoller(p)
         \/ \E d \in Ids : BackoffPasses(d)
  PROVE  EventsInv'
  <1>1. UNCHANGED <<event, msg, delivered, handling, todo, enabled, steady, enqueued, missed>>
    <2>1. ASSUME NEW a \in Actors, AttemptStep(a)
          PROVE  UNCHANGED <<event, msg, delivered, handling, todo, enabled, steady, enqueued, missed>>
      BY <2>1 DEF AttemptStep, GiveUp, Send, RecordAttempt, subVars, msgVars, history
    <2>2. ASSUME NEW p \in Pollers, PollerStep(p)
          PROVE  UNCHANGED <<event, msg, delivered, handling, todo, enabled, steady, enqueued, missed>>
      BY <2>1, <2>2 DEF PollerStep, ClaimDue, Lookup, subVars, msgVars, history, Actors
    <2>3. ASSUME NEW p \in Pollers, CrashPoller(p)
          PROVE  UNCHANGED <<event, msg, delivered, handling, todo, enabled, steady, enqueued, missed>>
      BY <2>3 DEF CrashPoller, subVars, msgVars
    <2>4. ASSUME NEW d \in Ids, BackoffPasses(d)
          PROVE  UNCHANGED <<event, msg, delivered, handling, todo, enabled, steady, enqueued, missed>>
      BY <2>4 DEF BackoffPasses, subVars, msgVars, history
    <2> QED BY <2>1, <2>2, <2>3, <2>4, SMTT(60)
  <1>2. \A m \in Messages : steady'[m] \subseteq steady[m] \cap enabled'
    BY <1>1 DEF EventsAreSent
  <1> QED BY <1>1, <1>2, EventsUnchanged

LEMMA PublishEvents ==
  ASSUME NotifyTypeOK, EventsInv, NEW m \in Messages, NEW e \in Events, Publish(m, e)
  PROVE  EventsInv'
  <1>1. /\ msg[m] = "unsent"
        /\ event' = [event EXCEPT ![m] = e] /\ msg' = [msg EXCEPT ![m] = "ready"]
        /\ steady' = [steady EXCEPT ![m] = {s \in enabled : Wants(s, e)}]
        /\ UNCHANGED <<enabled, delivered, handling, todo, enqueued, missed>>
    BY DEF Publish, subVars
  <1>2. /\ event'[m] = e /\ msg'[m] = "ready" /\ steady'[m] = {s \in enabled : Wants(s, e)}
        /\ \A o \in Messages \ {m} : event'[o] = event[o] /\ msg'[o] = msg[o] /\ steady'[o] = steady[o]
    BY <1>1 DEF NotifyTypeOK
  <1>3. \A c \in Consumers : handling[c] # Nothing => handling[c] \in Messages \ {m}
    BY <1>1 DEF EventsAreSent, NotifyTypeOK
  <1>4. DeliveriesRemain'
    BY <1>1, <1>2 DEF DeliveriesRemain
  <1>5. EventsAreSent'
    <2>1. \A c \in Consumers : handling'[c] # Nothing => msg'[handling'[c]] # "unsent"
      BY <1>1, <1>2, <1>3 DEF EventsAreSent
    <2>2. \A o \in Messages : msg'[o] = "unsent" => steady'[o] = {}
      BY <1>2 DEF EventsAreSent
    <2>3. \A o \in Messages : steady'[o] \subseteq {s \in enabled' : Wants(s, event'[o])}
      BY <1>1, <1>2 DEF EventsAreSent
    <2> QED BY <2>1, <2>2, <2>3 DEF EventsAreSent, Wants
  <1>6. ListIsComplete'
    BY <1>1, <1>2, <1>3 DEF ListIsComplete
  <1>7. AckedEventIsOwed'
    BY <1>1, <1>2 DEF AckedEventIsOwed
  <1> QED BY <1>4, <1>5, <1>6, <1>7

\* The list is read with the subscriptions as they are: everyone on record is among them.
LEMMA ReceiveEvents ==
  ASSUME NotifyTypeOK, EventsInv, NEW c \in Consumers, NEW m \in Messages, Receive(c, m)
  PROVE  EventsInv'
  <1>1. /\ msg[m] = "ready" /\ delivered' = [delivered EXCEPT ![m] = @ + 1] /\ handling[c] = Nothing
        /\ UNCHANGED <<enabled, event, steady, enqueued, missed>>
        /\ msg' = [msg EXCEPT ![m] = msg'[m]]
        /\ msg'[m] \in {"ready", "dead", "out"} /\ (msg'[m] = "ready" => delivered[m] + 1 < MaxDeliver)
        /\ \/ UNCHANGED <<handling, todo>>
           \/ handling' = [handling EXCEPT ![c] = m] /\ todo' = [todo EXCEPT ![c] = Matching(m)]
    BY DEF Receive, NotifyTypeOK, subVars, history
  <1>2. /\ \A o \in Messages \ {m} : msg'[o] = msg[o] /\ delivered'[o] = delivered[o]
        /\ delivered'[m] = delivered[m] + 1
        /\ \A o \in Messages : msg'[o] \in {"unsent", "acked"} => o # m /\ msg'[o] = msg[o]
    BY <1>1 DEF NotifyTypeOK
  <1>3. /\ \A f \in Consumers \ {c} : handling'[f] = handling[f] /\ todo'[f] = todo[f]
        /\ \/ handling'[c] = handling[c]
           \/ handling'[c] = m /\ todo'[c] = Matching(m)
    BY <1>1 DEF NotifyTypeOK
  <1>4. DeliveriesRemain'
    BY <1>1, <1>2 DEF DeliveriesRemain
  <1>5. EventsAreSent'
    <2>1. \A f \in Consumers : handling'[f] # Nothing => msg'[handling'[f]] # "unsent"
      BY <1>1, <1>2, <1>3 DEF EventsAreSent, NotifyTypeOK
    <2>2. \A o \in Messages : msg'[o] = "unsent" => steady'[o] = {}
      BY <1>1, <1>2 DEF EventsAreSent
    <2> QED BY <1>1, <2>1, <2>2 DEF EventsAreSent, Wants
  <1>6. ListIsComplete'
    <2> SUFFICES ASSUME NEW f \in Consumers, handling'[f] # Nothing, NEW s \in steady'[handling'[f]],
                        Kind[s] = "email" => HasEmailForm(event'[handling'[f]])
                 PROVE  \/ <<handling'[f], s>> \in enqueued' \cup missed'
                        \/ \E ref \in {"placeholder", "path"} : <<s, ref>> \in todo'[f]
      BY DEF ListIsComplete
    <2>1. CASE handling'[f] = handling[f] /\ todo'[f] = todo[f]
      BY <1>1, <2>1 DEF ListIsComplete
    <2>2. CASE f = c /\ handling'[c] = m /\ todo'[c] = Matching(m)
      <3>1. s \in enabled /\ Wants(s, event[m])
        BY <1>1, <2>2 DEF EventsAreSent
      <3>2. <<s, Ref(s)>> \in Matching(m)
        BY <3>1 DEF Matching
      <3>3. Ref(s) \in {"placeholder", "path"}
        BY DEF Ref
      <3> QED BY <2>2, <3>2, <3>3
    <2>3. f = c => handling'[f] = m /\ todo'[f] = Matching(m)
      BY <1>1, <1>3
    <2> QED BY <1>3, <2>1, <2>2, <2>3
  <1>7. AckedEventIsOwed'
    BY <1>1, <1>2 DEF AckedEventIsOwed
  <1> QED BY <1>4, <1>5, <1>6, <1>7

\* Whoever comes off the list has a row, or its insert failed; or is gone, and not on record.
LEMMA EnqueueEvents ==
  ASSUME NotifyTypeOK, EventsInv, NEW c \in Consumers, NEW s \in Subs, NEW ref \in {"placeholder", "path"},
         Enqueue(c, s, ref) \/ SkipEmail(c, s, ref)
  PROVE  EventsInv'
  <1>1. /\ handling[c] \in Messages
        /\ todo' = [todo EXCEPT ![c] = @ \ {<<s, ref>>}]
        /\ UNCHANGED <<enabled, event, msg, delivered, handling, steady>>
        /\ enqueued \subseteq enqueued' /\ missed \subseteq missed'
        /\ \/ <<handling[c], s>> \in enqueued' \cup missed'
           \/ ~ Live(s)
           \/ Kind[s] = "email" /\ ~ HasEmailForm(event[handling[c]])
    BY DEF Enqueue, SkipEmail, NotifyTypeOK, subVars, history
  <1>2. /\ todo'[c] = todo[c] \ {<<s, ref>>}
        /\ \A f \in Consumers \ {c} : todo'[f] = todo[f]
    BY <1>1 DEF NotifyTypeOK
  <1>3. DeliveriesRemain'
    BY <1>1 DEF DeliveriesRemain
  <1>4. EventsAreSent'
    BY <1>1 DEF EventsAreSent, Wants
  <1>5. AckedEventIsOwed'
    BY <1>1 DEF AckedEventIsOwed
  <1>6. ListIsComplete'
    <2> SUFFICES ASSUME NEW f \in Consumers, handling[f] # Nothing, NEW t \in steady[handling[f]],
                        Kind[t] = "email" => HasEmailForm(event[handling[f]])
                 PROVE  \/ <<handling[f], t>> \in enqueued' \cup missed'
                        \/ \E r \in {"placeholder", "path"} : <<t, r>> \in todo'[f]
      BY <1>1 DEF ListIsComplete
    <2>1. \/ <<handling[f], t>> \in enqueued \cup missed
          \/ \E r \in {"placeholder", "path"} : <<t, r>> \in todo[f]
      BY DEF ListIsComplete
    <2>2. CASE f # c \/ t # s
      BY <1>1, <1>2, <2>1, <2>2
    <2>3. CASE f = c /\ t = s
      <3>1. s \in enabled
        BY <1>1, <2>3 DEF EventsAreSent
      <3>2. Live(s)
        BY <3>1 DEF NotifyTypeOK
      <3> QED BY <1>1, <2>3, <3>2
    <2> QED BY <2>2, <2>3
  <1> QED BY <1>3, <1>4, <1>5, <1>6

\* The event is acked when the list is empty.
LEMMA AckEvents ==
  ASSUME NotifyTypeOK, EventsInv, NEW c \in Consumers, Ack(c)
  PROVE  EventsInv'
  <1>1. PICK m \in Messages : m = handling[c] /\ handling[c] # Nothing /\ todo[c] = {}
    BY DEF Ack, NotifyTypeOK
  <1>2. /\ msg' = [msg EXCEPT ![m] = "acked"] /\ handling' = [handling EXCEPT ![c] = Nothing]
        /\ UNCHANGED <<enabled, event, delivered, todo, steady, enqueued, missed>>
    BY <1>1 DEF Ack, subVars, history
  <1>3. msg'[m] = "acked" /\ \A o \in Messages \ {m} : msg'[o] = msg[o]
    BY <1>2 DEF NotifyTypeOK
  <1>4. handling'[c] = Nothing /\ \A f \in Consumers \ {c} : handling'[f] = handling[f]
    BY <1>2 DEF NotifyTypeOK
  <1>5. DeliveriesRemain'
    BY <1>2, <1>3 DEF DeliveriesRemain
  <1>6. EventsAreSent'
    <2>1. \A f \in Consumers : handling'[f] # Nothing => msg'[handling'[f]] # "unsent"
      BY <1>3, <1>4 DEF EventsAreSent, NotifyTypeOK
    <2>2. \A o \in Messages : msg'[o] = "unsent" => steady'[o] = {}
      BY <1>2, <1>3 DEF EventsAreSent
    <2> QED BY <1>2, <2>1, <2>2 DEF EventsAreSent, Wants
  <1>7. ListIsComplete'
    BY <1>2, <1>4 DEF ListIsComplete
  <1>8. AckedEventIsOwed'
    <2>1. ASSUME NEW s \in Subs, s \in steady[m], Kind[s] = "email" => HasEmailForm(event[m])
          PROVE  <<m, s>> \in enqueued \cup missed
      BY <1>1, <2>1 DEF ListIsComplete
    <2> QED BY <1>2, <1>3, <2>1 DEF AckedEventIsOwed
  <1> QED BY <1>5, <1>6, <1>7, <1>8

\* A message whose consumer dies or is slow comes again, while there is a delivery left.
LEMMA RedeliveryEvents ==
  ASSUME NotifyTypeOK, EventsInv, NEW c \in Consumers, CrashConsumer(c) \/ AckWaitPasses(c)
  PROVE  EventsInv'
  <1>1. PICK m \in Messages : m = handling[c] /\ handling[c] # Nothing
    BY DEF CrashConsumer, AckWaitPasses, NotifyTypeOK
  <1>2. /\ msg'[m] = msg[m] \/ msg'[m] = Redelivered(m)
        /\ \A o \in Messages \ {m} : msg'[o] = msg[o]
        /\ \A f \in Consumers : \/ handling'[f] = Nothing
                                \/ handling'[f] = handling[f] /\ todo'[f] = todo[f]
        /\ UNCHANGED <<enabled, event, delivered, steady, enqueued, missed>>
    BY <1>1 DEF CrashConsumer, AckWaitPasses, NotifyTypeOK, subVars, history
  <1>3. /\ msg'[m] = "ready" => msg[m] = "ready" \/ delivered[m] < MaxDeliver
        /\ msg[m] # "unsent" /\ msg'[m] # "unsent"
        /\ msg'[m] = "acked" => msg[m] = "acked"
    BY <1>1, <1>2 DEF Redelivered, EventsAreSent
  <1>4. DeliveriesRemain'
    BY <1>2, <1>3 DEF DeliveriesRemain
  <1>5. EventsAreSent'
    <2>1. \A f \in Consumers : handling'[f] # Nothing => msg'[handling'[f]] # "unsent"
      BY <1>2, <1>3 DEF EventsAreSent, NotifyTypeOK
    <2>2. \A o \in Messages : msg'[o] = "unsent" => steady'[o] = {}
      BY <1>2, <1>3 DEF EventsAreSent
    <2> QED BY <1>2, <2>1, <2>2 DEF EventsAreSent, Wants
  <1>6. ListIsComplete'
    BY <1>2 DEF ListIsComplete
  <1>7. AckedEventIsOwed'
    BY <1>2, <1>3 DEF AckedEventIsOwed
  <1> QED BY <1>4, <1>5, <1>6, <1>7

LEMMA NotifyStep ==
  ASSUME NotifyInv, [NotifyNext]_notifyVars
  PROVE  NotifyInv'
  <1> USE DEF NotifyInv
  <1>1. CASE UNCHANGED notifyVars
    <2>1. UNCHANGED <<row, nextId, batch, task, posts, stranded>>
      BY <1>1 DEF notifyVars, rowVars, history
    <2>2. NotifyTypeOK'
      BY <1>1 DEF notifyVars, subVars, msgVars, rowVars, history, NotifyTypeOK, Live
    <2>3. /\ UNCHANGED <<event, msg, delivered, handling, todo, enabled, steady, enqueued, missed>>
          /\ \A m \in Messages : steady'[m] \subseteq steady[m] \cap enabled'
      BY <1>1 DEF notifyVars, subVars, msgVars, history, EventsAreSent
    <2>4. RowsInv'
      BY <2>1, RowsUnchanged
    <2>5. EventsInv'
      BY <2>3, EventsUnchanged
    <2> QED BY <2>2, <2>4, <2>5
  <1>2. CASE NotifyNext
    <2>1. NotifyTypeOK' /\ RowsInv'
      BY <1>2, RowSteps
    <2>2. EventsInv'
      <3>1. CASE UserStep \/ HandlerStep
        BY <3>1, UserEvents
      <3>2. ASSUME NEW a \in Actors, AttemptStep(a) PROVE EventsInv'
        BY <3>2, DeliveryEvents
      <3>3. ASSUME NEW c \in Consumers, ConsumerStep(c) PROVE EventsInv'
        BY <3>2, <3>3, ReceiveEvents, EnqueueEvents, AckEvents DEF ConsumerStep, Actors
      <3>4. CASE FaultStep
        BY <3>4, RedeliveryEvents, DeliveryEvents DEF FaultStep
      <3>5. ASSUME NEW p \in Pollers, PollerStep(p) PROVE EventsInv'
        BY <3>5, DeliveryEvents
      <3>6. ASSUME NEW d \in Ids, BackoffPasses(d) PROVE EventsInv'
        BY <3>6, DeliveryEvents
      <3>7. ASSUME NEW m \in Messages, NEW e \in Events, Publish(m, e) PROVE EventsInv'
        BY <3>7, PublishEvents
      <3> QED BY <1>2, <3>1, <3>3, <3>4, <3>5, <3>6, <3>7 DEF NotifyNext
    <2> QED BY <2>1, <2>2
  <1> QED BY <1>1, <1>2

LEMMA NotifyInitially ==
  ASSUME NotifyInit
  PROVE  NotifyInv
  <1> USE DEF NotifyInit
  <1>1. NotifyTypeOK
    <2>1. NoRow \in Rows /\ Idle \in Tasks
      BY DEF Rows, Tasks
    <2>2. 0 \in 0..MaxDeliver /\ 1 \in 1..(MaxRows + 1) /\ 0 \in 0..MaxEdits /\ 0 \in 0..MaxFaults
      OBVIOUS
    <2> QED BY <2>1, <2>2 DEF NotifyTypeOK, Live
  <1>2. \A a \in Actors, d \in Ids : ~ Holds(a, d)
    BY DEF Holds
  <1>3. \A d \in Ids : row[d] = NoRow /\ row[d].status = "none" /\ posts[d] = 0
    BY DEF NoRow
  <1>4. \A a \in Actors : task[a] = Idle /\ task[a].stage = "idle"
    BY DEF Idle
  <1>5. IdsAreFresh /\ AtMostTwoAttempts /\ ProcessingIsHeld
    BY <1>2, <1>3 DEF IdsAreFresh, AtMostTwoAttempts, ProcessingIsHeld
  <1>6. AttemptsRemain /\ ClaimsAreDistinct
    BY <1>3, <1>4 DEF AttemptsRemain, ClaimsAreDistinct
  <1>7. TwoSchedules
    <2>1. \A a \in Actors, d \in Ids, n \in 0..MaxAttempts : Owes(a, d, n) => n = 0
      BY <1>1, <1>2, OwingHolds
    <2>2. \A d \in Ids : RowOwes(d) = 0
      BY <1>3 DEF RowOwes
    <2> QED BY <1>3, <2>1, <2>2 DEF TwoSchedules
  <1>8. EventsInv
    BY DEF DeliveriesRemain, EventsAreSent, ListIsComplete, AckedEventIsOwed
  <1> QED BY <1>1, <1>5, <1>6, <1>7, <1>8 DEF NotifyInv

\* No delivery is worked on by three actors at once, or by two while its row can be claimed, and a
\* receiver sees it at most 2 * MaxAttempts - 1 times (Attempter.Attempt, claim_due_deliveries).
THEOREM DeliveryBounded == NotifySpec => []DeliveryIsBounded
  <1>1. NotifyInv => DeliveryIsBounded
    <2> SUFFICES ASSUME NotifyInv PROVE DeliveryIsBounded
      OBVIOUS
    <2>1. PostsBounded
      <3> SUFFICES ASSUME NEW d \in Ids PROVE posts[d] <= 2 * MaxAttempts - 1
        BY DEF PostsBounded
      <3>1. posts[d] + RowOwes(d) <= 2 * MaxAttempts - 1
        BY DEF NotifyInv, TwoSchedules
      <3>2. posts[d] \in Nat /\ RowOwes(d) \in Nat
        BY RowOwesTyped DEF NotifyInv
      <3> QED BY <3>1, <3>2
    <2> QED BY <2>1 DEF NotifyInv, DeliveryIsBounded
  <1> QED BY <1>1, NotifyInitially, NotifyStep, PTL DEF NotifySpec

\* An acked event has a row for everyone who subscribed to it, and no row is forgotten (handle,
\* tick, claim_due_deliveries).
THEOREM EveryoneServed == NotifySpec => []EveryoneIsServed
  <1>1. NotifyInv => EveryoneIsServed
    <2> SUFFICES ASSUME NotifyInv PROVE EveryoneIsServed
      OBVIOUS
    <2>1. NoDeliveryForgotten
      <3> SUFFICES ASSUME NEW d \in Ids, row[d].status \in {"pending", "processing"}
                   PROVE  \/ \E a \in Actors : Holds(a, d)
                          \/ row[d].status = "pending" /\ (Due(d) \/ row[d].retry = "later")
                          \/ d \in stranded
        BY DEF NoDeliveryForgotten
      <3>1. CASE row[d].status = "pending"
        BY <3>1, RowKinds DEF NotifyInv, NotifyTypeOK, Due
      <3>2. CASE row[d].status = "processing"
        BY <3>2 DEF NotifyInv, ProcessingIsHeld, Actors
      <3> QED BY <3>1, <3>2
    <2> QED BY <2>1 DEF NotifyInv, EveryoneIsServed
  <1> QED BY <1>1, NotifyInitially, NotifyStep, PTL DEF NotifySpec

HIDE NotifyAssumption
HIDE DEF RowsInv, EventsInv

(***************************************************************************)
(* Engines: what a scan dispatches, by the request, the policy and the     *)
(* registry.                                                               *)
(***************************************************************************)
Policies == UNION {[F -> SUBSET Known] : F \in SUBSET Families}
Runs == UNION {[E -> {"queued", "published", "skipped", "succeeded", "failed"}] : E \in SUBSET Known}

CreatedStates ==
  [stage : {"fetching", "running"}, wish : Wishes, policy : Policies, run : Runs, gaps : SUBSET Known]
ScanStates ==
  [stage : {"none", "refused"}]
  \cup [stage : {"resolving"}, wish : Wishes, policy : Policies]
  \cup CreatedStates

SelectionTypeOK == policy \in Policies /\ scan \in [Scans -> ScanStates]

\* A policy names only engines that exist and make its family.
OwnFamily(p) == \A f \in DOMAIN p : \A e \in p[f] : InFamily(e, f)
PoliciesAreOwn ==
  /\ OwnFamily(policy)
  /\ \A s \in Scans : scan[s].stage = "resolving" => OwnFamily(scan[s].policy)

SelectionInv == SelectionTypeOK /\ PoliciesAreOwn /\ SelectionIsSound

\* What SelectionIsSound says of one scan.
SoundScan(c) ==
  /\ DOMAIN c.run # {}
  /\ \A e \in DOMAIN c.run \cup c.gaps : Registry[e].family \in c.wish.families
  /\ \A e \in DOMAIN c.run : Supports(e, c.wish.kind) /\ "derived" \notin Registry[e].flags
  /\ c.wish.engines # {} => DOMAIN c.run = c.wish.engines
  /\ c.wish.engines = {} => \A f \in c.wish.families :
       (IF f \in DOMAIN c.policy THEN c.policy[f] ELSE ForFamily(f)) \subseteq DOMAIN c.run \cup c.gaps

LEMMA KnownEngines ==
  Known = {"syft", "grype", "trivy_fs", "trivy_image", "osv_scanner", "dependency_check",
           "github_dependency_graph_sbom", "webrecon_fingerprint", "cbomkit_theia", "cbomkit",
           "aibom_generator", "ai_bom", "hbom_csv", "qbom_derive", "mock_engine"}
  BY DEF Known, Registry

\* Only qbom is derived, and it is only derived.
LEMMA OnlyQbomIsDerived ==
  /\ \A e \in Known : "derived" \in Registry[e].flags => e = "qbom_derive"
  /\ Registry["qbom_derive"].family = "qbom"
  /\ ForFamily("qbom") = {"qbom_derive"} /\ MetadataOnly("qbom_derive")
  <1>1. \A e \in {"syft", "grype", "trivy_fs", "trivy_image", "osv_scanner", "dependency_check", "mock_engine"} :
          Registry[e].family = "sbom" /\ Registry[e].flags = Plain
    BY DEF Registry, Entry
  <1>2. \A e \in {"github_dependency_graph_sbom", "webrecon_fingerprint"} :
          Registry[e].family = "sbom" /\ "derived" \notin Registry[e].flags
    BY DEF Registry, Entry
  <1>3. \A e \in {"cbomkit_theia", "cbomkit", "aibom_generator", "ai_bom"} :
          Registry[e].family \in {"cbom", "aibom"} /\ Registry[e].flags = Plain
    BY DEF Registry, Entry
  <1>4. Registry["hbom_csv"].family = "hbom" /\ Registry["hbom_csv"].flags = {"import"}
    BY DEF Registry, Entry
  <1>5. Registry["qbom_derive"].family = "qbom" /\ Registry["qbom_derive"].flags = {"derived"}
    BY DEF Registry, Entry
  <1>6. Plain = {}
    BY DEF Plain
  <1>7. \A e \in Known : e # "qbom_derive" => "derived" \notin Registry[e].flags /\ Registry[e].family # "qbom"
    BY <1>1, <1>2, <1>3, <1>4, <1>6, KnownEngines
  <1> QED BY <1>5, <1>7, KnownEngines DEF ForFamily, InFamily, MetadataOnly

LEMMA CandidatesAreOwn ==
  ASSUME NEW wish \in Wishes, NEW p \in Policies, OwnFamily(p)
  PROVE  /\ Candidates(wish, p) \subseteq Known
         /\ \A e \in Candidates(wish, p) : Registry[e].family \in wish.families
         /\ \A f \in wish.families :
              (IF f \in DOMAIN p THEN p[f] ELSE ForFamily(f)) \subseteq Candidates(wish, p)
  <1>1. \A f \in DOMAIN p : p[f] \subseteq Known
    BY DEF Policies
  <1>2. ASSUME NEW f \in wish.families
        PROVE  /\ CandidatesFor(f, p) \subseteq Known
               /\ \A e \in CandidatesFor(f, p) : Registry[e].family = f
               /\ (IF f \in DOMAIN p THEN p[f] ELSE ForFamily(f)) = CandidatesFor(f, p)
    BY <1>1 DEF CandidatesFor, ForFamily, InFamily, OwnFamily
  <1> QED BY <1>2 DEF Candidates

LEMMA CreateSelects ==
  ASSUME SelectionInv, NEW s \in Scans, CreateScan(s)
  PROVE  SelectionInv'
  <1> USE DEF SelectionInv, SelectionTypeOK
  <1>1. /\ scan[s] \in ScanStates /\ scan[s].stage = "resolving" /\ policy' = policy
        /\ scan[s].wish \in Wishes /\ scan[s].policy \in Policies /\ OwnFamily(scan[s].policy)
    <2>1. scan[s] \in ScanStates /\ scan[s].stage = "resolving" /\ policy' = policy
      BY DEF CreateScan
    <2>2. scan[s].wish \in Wishes /\ scan[s].policy \in Policies
      BY <2>1 DEF ScanStates, CreatedStates
    <2> QED BY <2>1, <2>2 DEF PoliciesAreOwn
  <1>2. PICK wish \in Wishes, p \in Policies : wish = scan[s].wish /\ p = scan[s].policy
    BY <1>1
  <1> DEFINE engines == resolveEngines(wish, p)
             gaps == SkippedForSource(wish, p)
  <1>3. CASE scan' = [scan EXCEPT ![s] = [stage |-> "refused"]]
    <2>1. [stage |-> "refused"] \in ScanStates
      BY DEF ScanStates, CreatedStates
    <2>2. scan' \in [Scans -> ScanStates] /\ scan'[s].stage = "refused" /\ \A t \in Scans \ {s} : scan'[t] = scan[t]
      BY <1>3, <2>1
    <2>3. PoliciesAreOwn'
      BY <1>1, <2>2 DEF PoliciesAreOwn, OwnFamily
    <2>4. SelectionIsSound'
      BY <2>2 DEF SelectionIsSound, Created
    <2> QED BY <1>1, <2>2, <2>3, <2>4
  <1>4. CASE /\ ValidateCombination(wish) /\ Scannable(wish) /\ engines # {}
             /\ scan' = [scan EXCEPT ![s] =
                  [stage |-> "fetching", wish |-> wish, policy |-> p,
                   run |-> [e \in engines |-> "queued"], gaps |-> gaps]]
    <2>1. /\ engines \subseteq Known /\ gaps \subseteq Known
          /\ \A e \in engines \cup gaps : Registry[e].family \in wish.families
          /\ \A e \in engines : Supports(e, wish.kind)
          /\ wish.engines # {} => engines = wish.engines
          /\ wish.engines = {} => \A f \in wish.families :
               (IF f \in DOMAIN p THEN p[f] ELSE ForFamily(f)) \subseteq engines \cup gaps
      <3>1. CASE wish.engines # {}
        <4>1. engines = wish.engines /\ gaps = {}
          BY <3>1 DEF resolveEngines, SkippedForSource
        <4> QED BY <1>4, <3>1, <4>1 DEF ValidateCombination, InFamily
      <3>2. CASE wish.engines = {}
        <4>1. engines = {e \in Candidates(wish, p) : Supports(e, wish.kind)} /\ engines \cup gaps = Candidates(wish, p)
          BY <3>2 DEF resolveEngines, SkippedForSource, RegistryResolve
        <4>2. OwnFamily(p)
          BY <1>1, <1>2
        <4> HIDE DEF engines, gaps
        <4> QED BY <3>2, <4>1, <4>2, CandidatesAreOwn
      <3> QED BY <3>1, <3>2
    <2>2. \A e \in engines : "derived" \notin Registry[e].flags
      <3>1. CASE wish.engines # {}
        <4>1. \A e \in engines : ~ MetadataOnly(e)
          BY <1>4, <2>1, <3>1 DEF Scannable
        <4> QED BY <4>1 DEF MetadataOnly
      <3>2. CASE wish.engines = {}
        <4> SUFFICES ASSUME NEW e \in engines, "derived" \in Registry[e].flags PROVE FALSE
          OBVIOUS
        <4>1. e = "qbom_derive" /\ "qbom" \in wish.families
          BY <2>1, OnlyQbomIsDerived
        <4>2. \E d \in ForFamily("qbom") : ~ MetadataOnly(d)
          BY <1>4, <4>1, OnlyQbomIsDerived DEF Scannable
        <4> QED BY <4>2, OnlyQbomIsDerived
      <3> QED BY <3>1, <3>2
    <2> DEFINE r == [e \in engines |-> "queued"]
               c == [stage |-> "fetching", wish |-> wish, policy |-> p, run |-> r, gaps |-> gaps]
    <2>3. r \in Runs /\ DOMAIN r = engines
      <3> HIDE DEF engines
      <3>1. r \in [engines -> {"queued", "published", "skipped", "succeeded", "failed"}]
        OBVIOUS
      <3> HIDE DEF r
      <3> QED BY <2>1, <3>1 DEF Runs
    <2> HIDE DEF engines, gaps, r
    <2>4. c \in ScanStates /\ c.stage = "fetching" /\ c.wish = wish /\ c.policy = p /\ c.run = r /\ c.gaps = gaps
      BY <2>1, <2>3 DEF ScanStates, CreatedStates
    <2>5. scan' = [scan EXCEPT ![s] = c]
      BY <1>4 DEF r
    <2> HIDE DEF c
    <2>6. scan' \in [Scans -> ScanStates] /\ scan'[s] = c /\ \A t \in Scans \ {s} : scan'[t] = scan[t]
      BY <2>4, <2>5
    <2>7. PoliciesAreOwn'
      BY <1>1, <2>4, <2>6 DEF PoliciesAreOwn, OwnFamily
    <2>8. SelectionIsSound'
      <3> SUFFICES ASSUME NEW t \in Scans, scan'[t].stage \in {"fetching", "running"}
                   PROVE  SoundScan(scan'[t])
        BY DEF SelectionIsSound, Created, SoundScan
      <3>1. CASE t = s
        BY <1>4, <2>1, <2>2, <2>3, <2>4, <2>6, <3>1 DEF SoundScan
      <3>2. CASE t # s
        BY <2>6, <3>2 DEF SelectionIsSound, Created, SoundScan
      <3> QED BY <3>1, <3>2
    <2> QED BY <1>1, <2>6, <2>7, <2>8
  <1> QED BY <1>2, <1>3, <1>4 DEF CreateScan

\* From then on only the status of the runs moves.
LEMMA RunsMove ==
  ASSUME SelectionInv, NEW s \in Scans, NEW e \in Known, NEW status \in {"succeeded", "failed"},
         FanOut(s) \/ HandleResult(s, e, status)
  PROVE  SelectionInv'
  <1> USE DEF SelectionInv, SelectionTypeOK
  <1>1. /\ scan[s] \in ScanStates /\ scan[s].stage \in {"fetching", "running"} /\ policy' = policy
    BY DEF FanOut, HandleResult
  <1>2. PICK r \in Runs : r = scan[s].run /\ scan[s] \in CreatedStates
    BY <1>1 DEF ScanStates, CreatedStates
  <1>3. PICK c \in CreatedStates :
          /\ c.wish = scan[s].wish /\ c.policy = scan[s].policy /\ DOMAIN c.run = DOMAIN r /\ c.gaps = scan[s].gaps
          /\ scan' = [scan EXCEPT ![s] = c]
    <2>1. PICK E \in SUBSET Known : r \in [E -> {"queued", "published", "skipped", "succeeded", "failed"}]
      BY DEF Runs
    <2>2. CASE FanOut(s)
      <3> DEFINE q == [d \in DOMAIN r |-> IF d \in Queued(s) /\ ~ HeldBack(d) THEN "published" ELSE r[d]]
                 c == [scan[s] EXCEPT !.stage = "running", !.run = q]
      <3>1. q \in [E -> {"queued", "published", "skipped", "succeeded", "failed"}] /\ DOMAIN q = DOMAIN r
        BY <2>1
      <3>2. q \in Runs
        BY <3>1 DEF Runs
      <3>3. scan' = [scan EXCEPT ![s].stage = "running", ![s].run = q]
        BY <1>2, <2>2 DEF FanOut
      <3> HIDE DEF q
      <3>4. c \in CreatedStates /\ c.run = q /\ c.wish = scan[s].wish /\ c.policy = scan[s].policy /\ c.gaps = scan[s].gaps
        BY <1>2, <3>2 DEF CreatedStates
      <3>5. scan' = [scan EXCEPT ![s] = c]
        BY <3>3
      <3> HIDE DEF c
      <3> QED BY <3>1, <3>4, <3>5
    <2>3. CASE HandleResult(s, e, status)
      <3> DEFINE q == [d \in DOMAIN r |->
                   IF d = e THEN status
                   ELSE IF d \in Queued(s) /\ Registry[d].consumes = e
                        THEN IF status = "succeeded" THEN "published" ELSE "skipped"
                   ELSE r[d]]
                 c == [scan[s] EXCEPT !.run = q]
      <3>1. q \in [E -> {"queued", "published", "skipped", "succeeded", "failed"}] /\ DOMAIN q = DOMAIN r
        BY <2>1
      <3>2. q \in Runs
        BY <3>1 DEF Runs
      <3>3. scan' = [scan EXCEPT ![s].run = q]
        BY <1>2, <2>3 DEF HandleResult
      <3> HIDE DEF q
      <3>4. c \in CreatedStates /\ c.run = q /\ c.wish = scan[s].wish /\ c.policy = scan[s].policy /\ c.gaps = scan[s].gaps
        BY <1>2, <3>2 DEF CreatedStates
      <3>5. scan' = [scan EXCEPT ![s] = c]
        BY <3>3
      <3> HIDE DEF c
      <3> QED BY <3>1, <3>4, <3>5
    <2> QED BY <2>2, <2>3
  <1>4. c \in ScanStates /\ c.stage \in {"fetching", "running"}
    BY DEF ScanStates, CreatedStates
  <1>6. scan' \in [Scans -> ScanStates] /\ scan'[s] = c /\ \A t \in Scans \ {s} : scan'[t] = scan[t]
    BY <1>3, <1>4
  <1>7. PoliciesAreOwn'
    BY <1>1, <1>4, <1>6 DEF PoliciesAreOwn, OwnFamily
  <1>8. SelectionIsSound'
    <2> SUFFICES ASSUME NEW t \in Scans, scan'[t].stage \in {"fetching", "running"}
                 PROVE  SoundScan(scan'[t])
      BY DEF SelectionIsSound, Created, SoundScan
    <2>1. CASE t = s
      <3>1. SoundScan(scan[s])
        BY <1>1 DEF SelectionIsSound, Created, SoundScan
      <3> QED BY <1>2, <1>3, <1>6, <2>1, <3>1 DEF SoundScan
    <2>2. CASE t # s
      BY <1>6, <2>2 DEF SelectionIsSound, Created, SoundScan
    <2> QED BY <2>1, <2>2
  <1> QED BY <1>1, <1>6, <1>7, <1>8

LEMMA PolicyMoves ==
  ASSUME SelectionInv, \/ \E o \in Overrides : EnginePolicyUpsert(o)
                       \/ \E f \in Families : EnginePolicyDelete(f)
  PROVE  SelectionInv'
  <1> USE DEF SelectionInv, SelectionTypeOK
  <1>1. scan' = scan
    BY DEF EnginePolicyUpsert, EnginePolicyDelete
  <1>2. policy' \in Policies /\ OwnFamily(policy')
    <2>1. PICK F \in SUBSET Families : policy \in [F -> SUBSET Known]
      BY DEF Policies
    <2>2. OwnFamily(policy)
      BY DEF PoliciesAreOwn
    <2>3. ASSUME NEW o \in Overrides, EnginePolicyUpsert(o) PROVE policy' \in Policies /\ OwnFamily(policy')
      <3> DEFINE G == F \cup {o.family}
      <3>1. o.family \in Families /\ o.engines \subseteq Known /\ \A e \in o.engines : InFamily(e, o.family)
        BY <2>3 DEF EnginePolicyUpsert, Valid
      <3>2. policy' = [f \in G |-> IF f # o.family THEN policy[f] ELSE IF o.enabled THEN o.engines ELSE {}]
        BY <2>1, <2>3 DEF EnginePolicyUpsert
      <3>3. \A f \in G : (IF f # o.family THEN policy[f] ELSE IF o.enabled THEN o.engines ELSE {}) \in SUBSET Known
        BY <2>1, <3>1
      <3>4. policy' \in [G -> SUBSET Known] /\ G \in SUBSET Families
        BY <3>1, <3>2, <3>3
      <3>5. OwnFamily(policy')
        BY <2>1, <2>2, <3>1, <3>2 DEF OwnFamily
      <3> QED BY <3>4, <3>5 DEF Policies
    <2>4. ASSUME NEW f \in Families, EnginePolicyDelete(f) PROVE policy' \in Policies /\ OwnFamily(policy')
      <3> DEFINE G == F \ {f}
      <3>1. policy' = [g \in G |-> policy[g]]
        BY <2>1, <2>4 DEF EnginePolicyDelete
      <3>2. policy' \in [G -> SUBSET Known] /\ G \in SUBSET Families
        BY <2>1, <3>1
      <3>3. OwnFamily(policy')
        BY <2>1, <2>2, <3>1 DEF OwnFamily
      <3> QED BY <3>2, <3>3 DEF Policies
    <2> QED BY <2>3, <2>4
  <1>3. PoliciesAreOwn'
    BY <1>1, <1>2 DEF PoliciesAreOwn, OwnFamily
  <1>4. SelectionIsSound'
    BY <1>1 DEF SelectionIsSound, Created
  <1> QED BY <1>1, <1>2, <1>3, <1>4

\* The policy that a scan reads is the tenant's at that time.
LEMMA OverridesAreRead ==
  ASSUME SelectionInv, NEW s \in Scans, NEW wish \in Wishes, OverridesForTenant(s, wish)
  PROVE  SelectionInv'
  <1> USE DEF SelectionInv, SelectionTypeOK
  <1> DEFINE c == [stage |-> "resolving", wish |-> wish, policy |-> policy]
  <1>1. c \in ScanStates /\ c.stage = "resolving" /\ c.policy = policy
    BY DEF ScanStates, CreatedStates
  <1>2. scan' = [scan EXCEPT ![s] = c] /\ policy' = policy
    BY DEF OverridesForTenant
  <1> HIDE DEF c
  <1>3. scan' \in [Scans -> ScanStates] /\ scan'[s] = c /\ \A t \in Scans \ {s} : scan'[t] = scan[t]
    BY <1>1, <1>2
  <1>4. PoliciesAreOwn'
    BY <1>1, <1>2, <1>3 DEF PoliciesAreOwn, OwnFamily
  <1>5. SelectionIsSound'
    BY <1>1, <1>3 DEF SelectionIsSound, Created
  <1> QED BY <1>2, <1>3, <1>4, <1>5

\* Every engine that a scan dispatches can read the source, makes a family that was asked for and
\* was chosen by the request, else by the tenant, else by the registry (CreateScan,
\* Registry.Resolve, EnginePolicyUpsert).
THEOREM SelectionSound == SelectionSpec => []SelectionIsSound
  <1>1. SelectionInit => SelectionInv
    <2> SUFFICES ASSUME SelectionInit PROVE SelectionInv
      OBVIOUS
    <2>1. policy \in [{} -> SUBSET Known] /\ OwnFamily(policy)
      BY DEF SelectionInit, OwnFamily
    <2>2. policy \in Policies
      BY <2>1 DEF Policies
    <2>3. [stage |-> "none"] \in ScanStates
      BY DEF ScanStates, CreatedStates
    <2> QED BY <2>1, <2>2, <2>3 DEF SelectionInit, SelectionInv, SelectionTypeOK, PoliciesAreOwn, SelectionIsSound, Created
  <1>2. SelectionInv /\ [SelectionNext]_selectionVars => SelectionInv'
    <2> SUFFICES ASSUME SelectionInv, [SelectionNext]_selectionVars PROVE SelectionInv'
      OBVIOUS
    <2>1. CASE UNCHANGED selectionVars
      BY <2>1 DEF selectionVars, SelectionInv, SelectionTypeOK, PoliciesAreOwn, OwnFamily, SelectionIsSound, Created
    <2>2. CASE SelectionNext
      BY <2>2, CreateSelects, RunsMove, PolicyMoves, OverridesAreRead, KnownEngines DEF SelectionNext
    <2> QED BY <2>1, <2>2
  <1>3. SelectionInv => SelectionIsSound
    BY DEF SelectionInv
  <1> QED BY <1>1, <1>2, <1>3, PTL DEF SelectionSpec

HIDE SelectionAssumption

(***************************************************************************)
(* A nonempty set of numbers has a least one: the induction over lists,    *)
(* trees and statements below.                                             *)
(***************************************************************************)
LEMMA Least ==
  ASSUME NEW S, S \subseteq Nat, S # {}
  PROVE  \E x \in S : \A y \in S : x <= y
  <1> DEFINE Below == {q \in Nat \X Nat : q[1] < q[2]}
  <1>1. IsWellFoundedOn(Below, Nat)
    BY NatLessThanWellFounded DEF OpToRel
  <1>2. \A x, y \in Nat : ~ (<<y, x>> \in Below) => x <= y
    OBVIOUS
  <1> HIDE DEF Below
  <1>3. \E x \in S : \A y \in S : ~ (<<y, x>> \in Below)
    BY <1>1, WFMin
  <1> QED BY <1>2, <1>3

(***************************************************************************)
(* Documents                                                               *)
(***************************************************************************)
Devices == [values : SUBSET {"model"}, status : SUBSET {"model", "crypto"}]
Saves == [kind : {"part", "import", "device", "answer"}, doc : Nat, key : Nat, from : Nat, at : Nat]

Saving == [op : {"save"}, from : Nat, doc : Nat, id : Nat, parent : Nat, child : BOOLEAN]
Importing == [op : {"import"}, from : Nat, version : Nat, list : Lists]
Capturing == [op : {"device"}, from : Nat, version : Nat, device : Devices]
Answering == [op : {"answer"}, from : Nat, doc : Nat]

PartRows == [doc : Nat, parent : Nat, row : Nat]
DocumentRows == [id : Nat, type : Types, scan : Nat, version : Nat, answers : Nat]
Requested == Saving \cup Importing \cup Capturing \cup Answering

DocTypeOK ==
  /\ scans \in Nat /\ ticks \in Nat
  /\ documents \subseteq DocumentRows
  /\ hardware \in Seq(Lists \cup {<< >>})
  /\ parts \in Seq(PartRows)
  /\ devices \in Seq(Devices)
  /\ writing \in [Writers -> {Quiet} \cup Requested]
  /\ acked \subseteq Saves

\* Documents are told apart by their ids, which count them; so do the versions of each.
DocumentsAreCounted ==
  /\ IsFiniteSet(documents)
  /\ \A d \in documents : /\ d.id \in 1..Cardinality(documents)
                          /\ d.version \in 1..Cardinality(documents)
                          /\ d.scan \in 1..scans
  /\ \A d, e \in documents : d.id = e.id => d = e

\* A part of a tree comes after its parent and belongs to a version that exists.
PartsAreBelow ==
  \A i \in 1..Len(parts) : parts[i].parent < i /\ parts[i].doc \in 1..Len(hardware)

ImportedSince(from) == \E s \in acked : s.kind = "import" /\ s.at >= from

\* Each request has a time of its own, and what it resolved was current, or has been
\* replaced by an import since.
Current(w) == writing[w].op # "none" =>
  /\ writing[w].from \in 1..ticks
  /\ \A s \in acked : s.from # writing[w].from
  /\ \A v \in Writers \ {w} : writing[v].op # "none" => writing[v].from # writing[w].from
  /\ writing[w].op = "save" =>
       /\ writing[w].doc <= Len(hardware) /\ writing[w].parent <= Len(parts)
       /\ writing[w].doc \in 1..(Len(hardware) - 1) => ImportedSince(writing[w].from)
  /\ writing[w].op = "import" => Parse[writing[w].list].outcome = "ok"
  /\ writing[w].op = "answer" => writing[w].doc \in 1..Cardinality(documents)

WritesAreCurrent == \A w \in Writers : Current(w)

\* What was answered with success is stored, and is current unless replaced since.
Stored(s) ==
  /\ s.from <= s.at /\ s.at <= ticks
  /\ s.kind = "part" =>
       /\ s.key \in 1..Len(parts) /\ parts[s.key].doc = s.doc
       /\ s.doc < Len(hardware) => ImportedSince(s.from)
  /\ s.kind = "import" =>
       s.doc \in 1..Len(hardware) /\ (s.doc < Len(hardware) => CommittedSince(s, {"import"}))
  /\ s.kind = "device" =>
       s.doc \in 1..Len(devices) /\ (s.doc < Len(devices) => CommittedSince(s, {"device"}))
  /\ s.kind = "answer" =>
       /\ s.key = s.from /\ s.doc \in 1..Cardinality(documents)
       /\ \A d \in documents : d.id = s.doc => d.answers = s.key \/ CommittedSince(s, {"answer"})

SavesAreStored == \A s \in acked : Stored(s)

\* An imported list is in the tree of its version, every row below the row it names.
RowsPlaced(v) == StartsAtRoot(hardware[v]) =>
  \A line \in Kept(hardware[v]) :
    \E i \in 1..Len(parts) :
      /\ parts[i].doc = v /\ parts[i].row = line
      /\ Above(hardware[v], line) = Root => parts[i].parent = Root
      /\ Above(hardware[v], line) # Root =>
           parts[i].parent \in 1..(i - 1) /\ parts[parts[i].parent].row = Above(hardware[v], line)

ListsArePlaced == \A v \in 1..Len(hardware) : RowsPlaced(v)

DocInv ==
  /\ DocTypeOK /\ DocumentsAreCounted /\ PartsAreBelow /\ WritesAreCurrent /\ SavesAreStored
  /\ ListsArePlaced

USE DocAssumption

(***************************************************************************)
(* What Parse makes of a list, row by row                                  *)
(***************************************************************************)
ReadStates ==
  [outcome : {"ok", "refused", "panic"}, stack : Seq(Nat), parent : Seq(Nat \X Nat),
   previous : Nat \cup {NoLevel}]
Unread == [outcome |-> "ok", stack |-> << >>, parent |-> << >>, previous |-> NoLevel]

\* Rows in order; a parent is a row before; the stack holds rows of the tree.
Nested(s, n) ==
  /\ s \in ReadStates
  /\ \A i \in DOMAIN s.parent :
       /\ s.parent[i][1] \in 1..n
       /\ s.parent[i][2] = Root \/ \E j \in 1..(i - 1) : s.parent[j][1] = s.parent[i][2]
  /\ \A i, j \in DOMAIN s.parent : i < j => s.parent[i][1] < s.parent[j][1]
  /\ \A l \in DOMAIN s.stack : \E i \in DOMAIN s.parent : s.parent[i][1] = s.stack[l]

\* The stack is the way from the root to the last row that was kept: below its level l
\* everything since is deeper.
KeptUpTo(list, n) == {m \in Kept(list) : m <= n}
Spine(list, s, n) ==
  /\ s.stack = << >> => KeptUpTo(list, n) = {}
  /\ \A l \in DOMAIN s.stack :
       /\ s.stack[l] \in KeptUpTo(list, n) /\ list[s.stack[l]] = l - 1
       /\ \A m \in KeptUpTo(list, n) : m > s.stack[l] => list[m] >= l
UpOf(list, m) == IF list[m] = 0 THEN Root ELSE Above(list, m)
Placing(list, s, n) ==
  \A m \in KeptUpTo(list, n) : \E i \in DOMAIN s.parent : s.parent[i] = <<m, UpOf(list, m)>>

LevelsRead(list, s, n) == s.outcome = "ok" /\ StartsAtRoot(list) => Spine(list, s, n) /\ Placing(list, s, n)

LEMMA ListType ==
  ASSUME NEW list \in Lists
  PROVE  /\ Len(list) \in Nat /\ DOMAIN list = 1..Len(list)
         /\ \A n \in 1..Len(list) : list[n] \in Nat \cup {Blank, NoLevel}
  BY DEF Blank, NoLevel

\* A function that reads the rows one after another exists, although it is defined by
\* itself: from a shortest list without one, the row before gives it.
LEMMA ReadExists ==
  ASSUME NEW list \in Lists
  PROVE  \E f : /\ ReadList(list) = f[Len(list)]
                /\ f = [n \in 0..Len(list) |-> IF n = 0 THEN Unread ELSE ReadRow(f[n - 1], n, list[n])]
  <1> DEFINE Reads(g, k) == g = [n \in 0..k |-> IF n = 0 THEN Unread ELSE ReadRow(g[n - 1], n, list[n])]
             Bad == {k \in 0..Len(list) : ~ \E g : Reads(g, k)}
             h == CHOOSE f : f = [n \in 0..Len(list) |-> IF n = 0 THEN Unread ELSE ReadRow(f[n - 1], n, list[n])]
  <1>1. Len(list) \in Nat
    BY ListType
  <1>2. ASSUME Bad # {} PROVE FALSE
    <2>1. PICK b \in Bad : \A k \in Bad : b <= k
      <3>1. Bad \subseteq Nat
        BY <1>1
      <3> HIDE DEF Bad
      <3> QED BY <1>2, <3>1, Least
    <2>2. CASE b = 0
      <3>1. Reads([n \in 0..0 |-> Unread], 0)
        OBVIOUS
      <3> QED BY <2>1, <2>2, <3>1
    <2>3. CASE b # 0
      <3>0. b \in 0..Len(list)
        BY <2>1
      <3>1. b - 1 \in 0..Len(list) /\ b - 1 \notin Bad /\ b \in Nat
        <4>1. b - 1 \in 0..Len(list) /\ b \in Nat /\ ~ (b <= b - 1)
          BY <1>1, <2>3, <3>0
        <4> HIDE DEF Bad
        <4> QED BY <2>1, <4>1
      <3>2. PICK g : Reads(g, b - 1)
        BY <3>1
      <3> DEFINE e == [n \in 0..b |-> IF n = b THEN ReadRow(g[b - 1], b, list[b]) ELSE g[n]]
      <3>3. \A n \in 0..b : e[n] = IF n = b THEN ReadRow(g[b - 1], b, list[b]) ELSE g[n]
        OBVIOUS
      <3>4. \A n \in 0..(b - 1) : g[n] = IF n = 0 THEN Unread ELSE ReadRow(g[n - 1], n, list[n])
        BY <3>2
      <3>5. \A n \in 0..b : e[n] = IF n = 0 THEN Unread ELSE ReadRow(e[n - 1], n, list[n])
        <4> TAKE n \in 0..b
        <4> HIDE DEF e
        <4>1. CASE n = b
          BY <2>3, <3>1, <3>3, <4>1
        <4>2. CASE n # b
          <5>1. n \in 0..(b - 1) /\ e[n] = g[n] /\ (n # 0 => n - 1 \in 0..b /\ n - 1 # b /\ e[n - 1] = g[n - 1])
            BY <3>1, <3>3, <4>2
          <5> QED BY <3>4, <5>1
        <4> QED BY <4>1, <4>2
      <3>6. Reads(e, b)
        BY <3>5
      <3> QED BY <2>1, <3>6
    <2> QED BY <2>2, <2>3
  <1>3. \E g : Reads(g, Len(list))
    BY <1>1, <1>2
  <1>4. Reads(h, Len(list))
    BY <1>3
  <1>5. ReadList(list) = h[Len(list)]
    BY DEF ReadList, Unread
  <1> HIDE DEF h
  <1> QED BY <1>4, <1>5

LEMMA ReadStateType ==
  ASSUME NEW s \in ReadStates
  PROVE  /\ s.stack \in Seq(Nat) /\ s.parent \in Seq(Nat \X Nat) /\ s.previous \in Nat \cup {NoLevel}
         /\ s.outcome \in {"ok", "refused", "panic"}
         /\ Len(s.stack) \in Nat /\ DOMAIN s.stack = 1..Len(s.stack)
         /\ Len(s.parent) \in Nat /\ DOMAIN s.parent = 1..Len(s.parent)
         /\ \A l \in DOMAIN s.stack : s.stack[l] \in Nat
         /\ \A i \in DOMAIN s.parent : s.parent[i] \in Nat \X Nat
  <1>1. s.stack \in Seq(Nat) /\ s.parent \in Seq(Nat \X Nat) /\ s.previous \in Nat \cup {NoLevel}
        /\ s.outcome \in {"ok", "refused", "panic"}
    BY DEF ReadStates
  <1> QED BY <1>1

\* A row is left out, begins a tree, or hangs below the last row one level up.
LEMMA RowRead ==
  ASSUME NEW s \in ReadStates, NEW line \in Nat, NEW level \in Nat \cup {Blank, NoLevel},
         NEW t, t = ReadRow(s, line, level)
  PROVE  /\ t \in ReadStates
         /\ \/ /\ t.parent = s.parent /\ t.stack = s.stack
               /\ t.outcome = "ok" => s.outcome = "ok" /\ level \notin 0..MaxDepth
            \/ /\ s.outcome = "ok" /\ level \in 0..MaxDepth /\ (level = 0 \/ s.stack = << >>)
               /\ t.parent = Append(s.parent, <<line, Root>>) /\ t.stack = <<line>>
            \/ /\ s.outcome = "ok" /\ level \in 1..MaxDepth /\ level \in DOMAIN s.stack
               /\ t.parent = Append(s.parent, <<line, s.stack[level]>>)
               /\ t.stack = Append(SubSeq(s.stack, 1, level), line)
  <1>1. CASE s.outcome # "ok" \/ level = Blank
    BY <1>1 DEF ReadRow, Blank
  <1>2. CASE s.outcome = "ok" /\ level # Blank /\ RefusesLevel(s, level)
    <2>1. t = [s EXCEPT !.outcome = "refused"]
      BY <1>2 DEF ReadRow
    <2>2. t \in ReadStates /\ t.parent = s.parent /\ t.stack = s.stack /\ t.outcome = "refused"
      BY <2>1 DEF ReadStates
    <2> QED BY <2>2
  <1>3. CASE s.outcome = "ok" /\ level # Blank /\ ~RefusesLevel(s, level) /\ level > MaxDepth
    <2>1. t = [s EXCEPT !.previous = level]
      BY <1>3 DEF ReadRow
    <2>2. level \in Nat
      BY <1>3 DEF RefusesLevel
    <2>3. t \in ReadStates /\ t.parent = s.parent /\ t.stack = s.stack
      BY <2>1, <2>2 DEF ReadStates
    <2> QED BY <1>3, <2>2, <2>3
  <1>4. CASE s.outcome = "ok" /\ level # Blank /\ ~RefusesLevel(s, level) /\ ~(level > MaxDepth)
    <2>1. t = Nest(s, line, level) /\ level \in 0..MaxDepth
      BY <1>4 DEF ReadRow, RefusesLevel
    <2>2. CASE level = 0 \/ s.stack = << >>
      <3>1. t = [s EXCEPT !.parent = Append(@, <<line, Root>>), !.stack = <<line>>, !.previous = level]
        BY <2>1, <2>2 DEF Nest
      <3>2. t.parent = Append(s.parent, <<line, Root>>) /\ t.stack = <<line>>
        BY <3>1 DEF ReadStates
      <3>3. Append(s.parent, <<line, Root>>) \in Seq(Nat \X Nat) /\ <<line>> \in Seq(Nat)
        BY ReadStateType DEF Root
      <3>4. t \in ReadStates
        <4>1. PICK p, k : p = Append(s.parent, <<line, Root>>) /\ k = <<line>>
          OBVIOUS
        <4>2. t = [s EXCEPT !.parent = p, !.stack = k, !.previous = level]
          BY <3>1, <4>1
        <4>3. p \in Seq(Nat \X Nat) /\ k \in Seq(Nat) /\ level \in Nat
          BY <2>1, <3>3, <4>1
        <4> QED BY <4>2, <4>3 DEF ReadStates
      <3> QED BY <1>4, <2>1, <2>2, <3>2, <3>4
    <2>3. CASE level # 0 /\ s.stack # << >> /\ level > Len(s.stack)
      <3>1. t = [s EXCEPT !.outcome = "panic"]
        BY <2>1, <2>3 DEF Nest
      <3>2. t \in ReadStates /\ t.parent = s.parent /\ t.stack = s.stack /\ t.outcome = "panic"
        BY <3>1 DEF ReadStates
      <3> QED BY <3>2
    <2>4. CASE level # 0 /\ s.stack # << >> /\ ~(level > Len(s.stack))
      <3>1. t = [s EXCEPT !.parent = Append(@, <<line, s.stack[level]>>),
                          !.stack = Append(SubSeq(@, 1, level), line), !.previous = level]
        BY <2>1, <2>4 DEF Nest
      <3>2. level \in DOMAIN s.stack /\ level \in 1..MaxDepth
        BY <2>1, <2>4, ReadStateType
      <3>3. t.parent = Append(s.parent, <<line, s.stack[level]>>) /\ t.stack = Append(SubSeq(s.stack, 1, level), line)
        BY <3>1 DEF ReadStates
      <3>4. Append(s.parent, <<line, s.stack[level]>>) \in Seq(Nat \X Nat)
        BY <3>2, ReadStateType
      <3>5. SubSeq(s.stack, 1, level) \in Seq(Nat)
        BY <3>2, ReadStateType
      <3>6. Append(SubSeq(s.stack, 1, level), line) \in Seq(Nat)
        BY <3>5
      <3>7. t \in ReadStates
        <4>1. PICK p, k : p = Append(s.parent, <<line, s.stack[level]>>)
                          /\ k = Append(SubSeq(s.stack, 1, level), line)
          OBVIOUS
        <4>2. t = [s EXCEPT !.parent = p, !.stack = k, !.previous = level]
          BY <3>1, <4>1
        <4>3. p \in Seq(Nat \X Nat) /\ k \in Seq(Nat) /\ level \in Nat
          BY <2>1, <3>4, <3>6, <4>1
        <4> QED BY <4>2, <4>3 DEF ReadStates
      <3> QED BY <1>4, <3>2, <3>3, <3>7
    <2> QED BY <2>2, <2>3, <2>4
  <1> QED BY <1>1, <1>2, <1>3, <1>4

LEMMA ParentAppended ==
  ASSUME NEW s \in ReadStates, NEW x \in Nat \X Nat, NEW p, p = Append(s.parent, x)
  PROVE  /\ Len(p) = Len(s.parent) + 1 /\ DOMAIN p = 1..(Len(s.parent) + 1)
         /\ \A i \in 1..Len(s.parent) : p[i] = s.parent[i]
         /\ p[Len(s.parent) + 1] = x
  BY ReadStateType

\* The order of the rows and where their parents are, from row to row.
LEMMA NestedGrows ==
  ASSUME NEW n \in Nat, NEW s, Nested(s, n), NEW t \in ReadStates, NEW x \in Nat \X Nat,
         t.parent = Append(s.parent, x), x[1] = n + 1,
         x[2] = Root \/ \E j \in DOMAIN s.parent : s.parent[j][1] = x[2],
         \A l \in DOMAIN t.stack : t.stack[l] = n + 1 \/ \E m \in DOMAIN s.stack : t.stack[l] = s.stack[m]
  PROVE  Nested(t, n + 1)
  <1>1. s \in ReadStates
    BY DEF Nested
  <1>2. PICK k : k = Len(s.parent)
    OBVIOUS
  <1>3. k \in Nat /\ DOMAIN s.parent = 1..k /\ \A i \in 1..k : s.parent[i] \in Nat \X Nat
    BY <1>1, <1>2, ReadStateType
  <1>4. DOMAIN t.parent = 1..(k + 1) /\ (\A i \in 1..k : t.parent[i] = s.parent[i]) /\ t.parent[k + 1] = x
    BY <1>1, <1>2, ParentAppended
  <1>5. \A i \in 1..(k + 1) : i \in 1..k \/ i = k + 1
    BY <1>3
  <1>6. \A i \in 1..k : /\ s.parent[i][1] \in 1..n
                        /\ s.parent[i][2] = Root \/ \E j \in 1..(i - 1) : s.parent[j][1] = s.parent[i][2]
    BY <1>3 DEF Nested
  <1>7. ASSUME NEW i \in 1..(k + 1)
        PROVE  /\ t.parent[i][1] \in 1..(n + 1)
               /\ t.parent[i][2] = Root \/ \E j \in 1..(i - 1) : t.parent[j][1] = t.parent[i][2]
    <2>1. CASE i = k + 1
      <3>1. (k + 1) - 1 = k
        BY <1>3
      <3> QED BY <1>3, <1>4, <2>1, <3>1
    <2>2. CASE i \in 1..k
      <3>1. 1..(i - 1) \subseteq 1..k
        BY <1>3, <2>2
      <3>2. t.parent[i] = s.parent[i] /\ s.parent[i][1] \in 1..n
        BY <1>4, <1>6, <2>2
      <3>3. s.parent[i][2] = Root \/ \E j \in 1..(i - 1) : s.parent[j][1] = s.parent[i][2]
        BY <1>6, <2>2
      <3>4. s.parent[i][2] = Root \/ \E j \in 1..(i - 1) : t.parent[j][1] = s.parent[i][2]
        BY <1>4, <3>1, <3>3
      <3>5. s.parent[i][1] \in 1..(n + 1)
        BY <3>2
      <3> QED BY <3>2, <3>4, <3>5
    <2> QED BY <1>5, <2>1, <2>2
  <1>8. ASSUME NEW i \in 1..(k + 1), NEW j \in 1..(k + 1), i < j
        PROVE  t.parent[i][1] < t.parent[j][1]
    <2>1. i \in 1..k
      BY <1>3, <1>8
    <2>2. CASE j = k + 1
      BY <1>4, <1>6, <2>1, <2>2
    <2>3. CASE j \in 1..k
      BY <1>3, <1>4, <1>8, <2>1, <2>3 DEF Nested
    <2> QED BY <1>5, <2>2, <2>3
  <1>9. ASSUME NEW l \in DOMAIN t.stack PROVE \E i \in 1..(k + 1) : t.parent[i][1] = t.stack[l]
    <2>1. CASE t.stack[l] = n + 1
      BY <1>3, <1>4, <2>1
    <2>2. CASE \E m \in DOMAIN s.stack : t.stack[l] = s.stack[m]
      <3>1. PICK i \in 1..k : s.parent[i][1] = t.stack[l]
        BY <1>3, <2>2 DEF Nested
      <3> QED BY <1>3, <1>4, <3>1
    <2> QED BY <2>1, <2>2
  <1> QED BY <1>4, <1>7, <1>8, <1>9 DEF Nested

LEMMA NestedStays ==
  ASSUME NEW n \in Nat, NEW s, Nested(s, n), NEW t \in ReadStates,
         t.parent = s.parent, t.stack = s.stack
  PROVE  Nested(t, n + 1)
  <1>1. \A i \in DOMAIN s.parent : s.parent[i][1] \in 1..(n + 1)
    BY DEF Nested
  <1> QED BY <1>1 DEF Nested

\* What is kept before a row that is kept itself, or is not.
LEMMA KeptGrows ==
  ASSUME NEW list \in Lists, NEW n \in Nat, n + 1 \in 1..Len(list)
  PROVE  /\ list[n + 1] \notin 0..MaxDepth => KeptUpTo(list, n + 1) = KeptUpTo(list, n)
         /\ list[n + 1] \in 0..MaxDepth => KeptUpTo(list, n + 1) = KeptUpTo(list, n) \cup {n + 1}
         /\ \A m \in KeptUpTo(list, n) : m \in 1..n /\ list[m] \in 0..MaxDepth
  <1>1. Len(list) \in Nat
    BY ListType
  <1>2. \A m \in 1..Len(list) : m <= n + 1 <=> m <= n \/ m = n + 1
    BY <1>1
  <1>3. \A m \in Kept(list) : m \in 1..Len(list) /\ list[m] \in 0..MaxDepth
    BY DEF Kept
  <1>4. n + 1 \in Kept(list) <=> list[n + 1] \in 0..MaxDepth
    BY DEF Kept
  <1> QED BY <1>1, <1>2, <1>3, <1>4 DEF KeptUpTo

\* The parent of a row below the root is the last row before it one level up.
LEMMA SpineIsAbove ==
  ASSUME NEW list \in Lists, NEW n \in Nat, n + 1 \in 1..Len(list), NEW s \in ReadStates, Spine(list, s, n),
         NEW level, level = list[n + 1], level \in 1..MaxDepth, level \in DOMAIN s.stack
  PROVE  s.stack[level] = UpOf(list, n + 1)
  <1> DEFINE up == {m \in 1..((n + 1) - 1) : list[m] = list[n + 1] - 1}
             last == CHOOSE m \in up : \A k \in up : k <= m
  <1>1. s.stack[level] \in KeptUpTo(list, n) /\ list[s.stack[level]] = level - 1
    BY DEF Spine
  <1>2. s.stack[level] \in up
    BY <1>1, KeptGrows
  <1>3. ASSUME NEW m \in up PROVE m <= s.stack[level]
    <2>1. m \in 1..n /\ list[m] = level - 1 /\ m \in 1..Len(list) /\ list[m] \in 0..MaxDepth
      BY ListType
    <2>2. m \in KeptUpTo(list, n)
      BY <2>1 DEF KeptUpTo, Kept
    <2>3. ~ (m > s.stack[level])
      BY <2>1, <2>2 DEF Spine
    <2>4. s.stack[level] \in Nat
      BY <1>1, KeptGrows
    <2> QED BY <2>1, <2>3, <2>4
  <1>4. up \subseteq Nat
    OBVIOUS
  <1>5. last = s.stack[level]
    <2> HIDE DEF up
    <2>1. last \in up /\ \A k \in up : k <= last
      BY <1>2, <1>3
    <2>2. last <= s.stack[level] /\ s.stack[level] <= last
      BY <1>2, <1>3, <2>1
    <2>3. last \in Nat /\ s.stack[level] \in Nat
      BY <1>2, <1>4, <2>1
    <2> HIDE DEF last
    <2> QED BY <2>2, <2>3
  <1>6. UpOf(list, n + 1) = last
    BY DEF UpOf, Above
  <1> QED BY <1>5, <1>6

LEMMA PlacingGrows ==
  ASSUME NEW list \in Lists, NEW n \in Nat, NEW s \in ReadStates, Placing(list, s, n),
         KeptUpTo(list, n + 1) = KeptUpTo(list, n) \cup {n + 1},
         <<n + 1, UpOf(list, n + 1)>> \in Nat \X Nat,
         NEW t, t.parent = Append(s.parent, <<n + 1, UpOf(list, n + 1)>>)
  PROVE  Placing(list, t, n + 1)
  <1>1. PICK x : x = <<n + 1, UpOf(list, n + 1)>>
    OBVIOUS
  <1>2. PICK k : k = Len(s.parent)
    OBVIOUS
  <1>3. k \in Nat /\ DOMAIN s.parent = 1..k
    BY <1>2, ReadStateType
  <1>4. DOMAIN t.parent = 1..(k + 1) /\ (\A i \in 1..k : t.parent[i] = s.parent[i]) /\ t.parent[k + 1] = x
    BY <1>1, <1>2, ParentAppended
  <1>5. ASSUME NEW m \in KeptUpTo(list, n + 1)
        PROVE  \E i \in DOMAIN t.parent : t.parent[i] = <<m, UpOf(list, m)>>
    <2>1. CASE m = n + 1
      <3>1. x = <<m, UpOf(list, m)>>
        BY <1>1, <2>1
      <3>2. k + 1 \in DOMAIN t.parent /\ t.parent[k + 1] = x
        BY <1>3, <1>4
      <3> HIDE DEF UpOf
      <3> QED BY <3>1, <3>2
    <2>2. CASE m # n + 1
      <3>1. PICK i \in DOMAIN s.parent : s.parent[i] = <<m, UpOf(list, m)>>
        BY <2>2 DEF Placing
      <3>2. i \in 1..k /\ i \in DOMAIN t.parent /\ t.parent[i] = s.parent[i]
        BY <1>3, <1>4, SMTT(60)
      <3> QED BY <3>1, <3>2
    <2> QED BY <2>1, <2>2
  <1> QED BY <1>5 DEF Placing

\* One row more keeps what is known of the tree.
LEMMA RowKeeps ==
  ASSUME NEW list \in Lists, NEW n \in Nat, n + 1 \in 1..Len(list),
         NEW s, Nested(s, n), LevelsRead(list, s, n),
         NEW t, t = ReadRow(s, n + 1, list[n + 1])
  PROVE  Nested(t, n + 1) /\ LevelsRead(list, t, n + 1)
  <1>1. PICK level : level = list[n + 1]
    OBVIOUS
  <1>2. s \in ReadStates /\ level \in Nat \cup {Blank, NoLevel} /\ n + 1 \in Nat
    BY <1>1, ListType DEF Nested
  <1>3. CASE /\ t \in ReadStates /\ t.parent = s.parent /\ t.stack = s.stack
             /\ t.outcome = "ok" => s.outcome = "ok" /\ level \notin 0..MaxDepth
    <2>1. Nested(t, n + 1)
      BY <1>3, NestedStays
    <2>2. ASSUME t.outcome = "ok", StartsAtRoot(list) PROVE Spine(list, t, n + 1) /\ Placing(list, t, n + 1)
      <3>1. KeptUpTo(list, n + 1) = KeptUpTo(list, n)
        BY <1>1, <1>3, <2>2, KeptGrows
      <3>2. Spine(list, s, n) /\ Placing(list, s, n)
        BY <1>3, <2>2 DEF LevelsRead
      <3> QED BY <1>3, <3>1, <3>2 DEF Spine, Placing
    <2> QED BY <2>1, <2>2 DEF LevelsRead
  <1>4. CASE /\ t \in ReadStates /\ s.outcome = "ok" /\ level \in 0..MaxDepth /\ (level = 0 \/ s.stack = << >>)
             /\ t.parent = Append(s.parent, <<n + 1, Root>>) /\ t.stack = <<n + 1>>
    <2> DEFINE x == <<n + 1, Root>>
    <2>1. x \in Nat \X Nat /\ x[1] = n + 1 /\ x[2] = Root
      BY DEF Root
    <2>2. DOMAIN t.stack = {1} /\ t.stack[1] = n + 1
      BY <1>4
    <2>3. Nested(t, n + 1)
      <3> HIDE DEF x
      <3>1. t.parent = Append(s.parent, x)
        BY <1>4 DEF x
      <3> QED BY <1>4, <2>1, <2>2, <3>1, NestedGrows
    <2>4. ASSUME t.outcome = "ok", StartsAtRoot(list) PROVE Spine(list, t, n + 1) /\ Placing(list, t, n + 1)
      <3>1. Spine(list, s, n) /\ Placing(list, s, n)
        BY <1>4, <2>4 DEF LevelsRead
      <3>2. KeptUpTo(list, n + 1) = KeptUpTo(list, n) \cup {n + 1} /\ n + 1 \in Kept(list)
        BY <1>1, <1>4, KeptGrows DEF Kept
      <3>3. level = 0
        <4>1. SUFFICES ASSUME level # 0 PROVE FALSE
          OBVIOUS
        <4>2. KeptUpTo(list, n) = {}
          BY <1>4, <3>1, <4>1 DEF Spine
        <4>3. PICK m \in Kept(list) : m < n + 1 /\ list[m] = 0
          BY <1>1, <2>4, <3>2, <4>1 DEF StartsAtRoot
        <4>4. m \in KeptUpTo(list, n)
          BY <4>3 DEF KeptUpTo, Kept
        <4> QED BY <4>2, <4>4
      <3>4. Spine(list, t, n + 1)
        <4>1. \A m \in KeptUpTo(list, n + 1) : m <= n + 1 /\ m \in Nat
          BY <3>2, KeptGrows
        <4>2. n + 1 \in KeptUpTo(list, n + 1)
          BY <3>2
        <4>3. t.stack # << >>
          BY <2>2
        <4>4. list[t.stack[1]] = 1 - 1
          <5>1. list[n + 1] = 0 /\ t.stack[1] = n + 1
            BY <1>1, <2>2, <3>3
          <5>2. list[t.stack[1]] = 0
            BY <5>1
          <5> QED BY <5>2
        <4>5. \A m \in KeptUpTo(list, n + 1) : ~ (m > t.stack[1])
          BY <2>2, <4>1
        <4> QED BY <2>2, <4>2, <4>3, <4>4, <4>5 DEF Spine
      <3>5. UpOf(list, n + 1) = Root
        BY <1>1, <3>3 DEF UpOf
      <3>6. Placing(list, t, n + 1)
        <4>1. t.parent = Append(s.parent, <<n + 1, UpOf(list, n + 1)>>)
          BY <1>4, <3>5
        <4>2. <<n + 1, UpOf(list, n + 1)>> \in Nat \X Nat
          BY <1>2, <3>5 DEF Root
        <4> QED BY <1>2, <3>1, <3>2, <4>1, <4>2, PlacingGrows
      <3> QED BY <3>4, <3>6
    <2> QED BY <2>3, <2>4 DEF LevelsRead
  <1>5. CASE /\ t \in ReadStates /\ s.outcome = "ok" /\ level \in 1..MaxDepth /\ level \in DOMAIN s.stack
             /\ t.parent = Append(s.parent, <<n + 1, s.stack[level]>>)
             /\ t.stack = Append(SubSeq(s.stack, 1, level), n + 1)
    <2> DEFINE x == <<n + 1, s.stack[level]>>
    <2>1. x \in Nat \X Nat /\ x[1] = n + 1 /\ x[2] = s.stack[level]
      BY <1>2, <1>5, ReadStateType
    <2>2. /\ DOMAIN t.stack = 1..(level + 1) /\ t.stack[level + 1] = n + 1 /\ 1..level \subseteq DOMAIN s.stack
          /\ \A l \in 1..level : t.stack[l] = s.stack[l]
      <3>1. /\ s.stack \in Seq(Nat) /\ level \in 1..Len(s.stack) /\ Len(s.stack) \in Nat
            /\ DOMAIN s.stack = 1..Len(s.stack)
        BY <1>2, <1>5, ReadStateType
      <3>2. /\ SubSeq(s.stack, 1, level) \in Seq(Nat) /\ Len(SubSeq(s.stack, 1, level)) = level
            /\ \A l \in 1..level : SubSeq(s.stack, 1, level)[l] = s.stack[l]
        <4>1. PICK all : all = s.stack
          OBVIOUS
        <4>2. all \in Seq(Nat) /\ level \in 1..Len(all)
          BY <3>1, <4>1
        <4>3. SubSeq(all, 1, level) \in Seq(Nat)
          BY <4>2
        <4>4. Len(SubSeq(all, 1, level)) = level
          BY <4>2
        <4>5. \A l \in 1..level : SubSeq(all, 1, level)[l] = all[l]
          BY <4>2
        <4> QED BY <4>1, <4>3, <4>4, <4>5
      <3>3. PICK q : q = SubSeq(s.stack, 1, level)
        OBVIOUS
      <3>4. q \in Seq(Nat) /\ Len(q) = level /\ t.stack = Append(q, n + 1)
        BY <1>5, <3>2, <3>3
      <3>5. /\ DOMAIN t.stack = 1..(level + 1) /\ t.stack[level + 1] = n + 1
            /\ \A l \in 1..level : t.stack[l] = q[l]
        <4>1. level \in Nat /\ n + 1 \in Nat
          BY <1>2, <3>1
        <4>2. q \in Seq(Nat) /\ Len(q) = level
          BY <3>4
        <4>3. Len(Append(q, n + 1)) = level + 1 /\ Append(q, n + 1) \in Seq(Nat)
              /\ Append(q, n + 1)[level + 1] = n + 1 /\ \A l \in 1..level : Append(q, n + 1)[l] = q[l]
          BY <4>1, <4>2
        <4>4. PICK a : a = Append(q, n + 1)
          OBVIOUS
        <4>5. a \in Seq(Nat) /\ Len(a) = level + 1 /\ a[level + 1] = n + 1 /\ \A l \in 1..level : a[l] = q[l]
          BY <4>3, <4>4
        <4>6. DOMAIN a = 1..(level + 1) /\ t.stack = a
          BY <3>4, <4>4, <4>5
        <4> QED BY <4>5, <4>6
      <3> QED BY <3>1, <3>2, <3>3, <3>5
    <2>3. Nested(t, n + 1)
      <3>1. \E j \in DOMAIN s.parent : s.parent[j][1] = x[2]
        BY <1>5, <2>1 DEF Nested
      <3>2. \A l \in DOMAIN t.stack : t.stack[l] = n + 1 \/ \E m \in DOMAIN s.stack : t.stack[l] = s.stack[m]
        <4>1. \A l \in 1..(level + 1) : l \in 1..level \/ l = level + 1
          BY <1>5
        <4> QED BY <2>2, <4>1
      <3>3. t.parent = Append(s.parent, x)
        BY <1>5
      <3>4. t \in ReadStates
        BY <1>5
      <3>5. x \in Nat \X Nat /\ x[1] = n + 1
        BY <2>1
      <3> HIDE DEF x, Nested
      <3> QED BY ONLY Nested(s, n), n \in Nat, <3>1, <3>2, <3>3, <3>4, <3>5, NestedGrows
    <2>4. ASSUME t.outcome = "ok", StartsAtRoot(list) PROVE Spine(list, t, n + 1) /\ Placing(list, t, n + 1)
      <3>1. Spine(list, s, n) /\ Placing(list, s, n)
        BY <1>5, <2>4 DEF LevelsRead
      <3>2. /\ KeptUpTo(list, n + 1) = KeptUpTo(list, n) \cup {n + 1}
            /\ \A m \in KeptUpTo(list, n) : m \in 1..n
        BY <1>1, <1>5, KeptGrows, SMTT(60)
      <3>3. Spine(list, t, n + 1)
        <4>1. t.stack # << >>
          BY <2>2, <1>5
        <4>2. ASSUME NEW l \in 1..level
              PROVE  /\ t.stack[l] \in KeptUpTo(list, n + 1) /\ list[t.stack[l]] = l - 1
                     /\ \A m \in KeptUpTo(list, n + 1) : m > t.stack[l] => list[m] >= l
          <5>1. /\ s.stack[l] \in KeptUpTo(list, n) /\ list[s.stack[l]] = l - 1
                /\ \A m \in KeptUpTo(list, n) : m > s.stack[l] => list[m] >= l
            BY <2>2, <3>1 DEF Spine
          <5>2. list[n + 1] >= l
            BY <1>1, <1>5
          <5> QED BY <2>2, <3>2, <5>1, <5>2
        <4>3. /\ t.stack[level + 1] \in KeptUpTo(list, n + 1) /\ list[t.stack[level + 1]] = (level + 1) - 1
              /\ \A m \in KeptUpTo(list, n + 1) : ~ (m > t.stack[level + 1])
          <5>1. t.stack[level + 1] \in KeptUpTo(list, n + 1)
            BY <2>2, <3>2
          <5>2. list[t.stack[level + 1]] = level /\ level \in Nat
            BY <1>1, <1>5, <2>2
          <5>3. \A m \in KeptUpTo(list, n + 1) : m <= n + 1 /\ m \in Nat
            BY <3>2
          <5>4. \A m \in KeptUpTo(list, n + 1) : ~ (m > t.stack[level + 1])
            BY <2>2, <5>3
          <5> QED BY <5>1, <5>2, <5>4
        <4>4. \A l \in 1..(level + 1) : l \in 1..level \/ l = level + 1
          BY <1>5
        <4> QED BY <2>2, <4>1, <4>2, <4>3, <4>4 DEF Spine
      <3>4. UpOf(list, n + 1) = s.stack[level]
        BY <1>1, <1>2, <1>5, <3>1, SpineIsAbove
      <3>5. Placing(list, t, n + 1)
        <4>1. t.parent = Append(s.parent, <<n + 1, UpOf(list, n + 1)>>)
          BY <1>5, <3>4
        <4>2. <<n + 1, UpOf(list, n + 1)>> \in Nat \X Nat
          BY <2>1, <3>4
        <4> QED BY <1>2, <3>1, <3>2, <4>1, <4>2, PlacingGrows
      <3> QED BY <3>3, <3>5
    <2> QED BY <2>3, <2>4 DEF LevelsRead
  <1>6. t = ReadRow(s, n + 1, level)
    BY <1>1
  <1>7. /\ t \in ReadStates
        /\ \/ /\ t.parent = s.parent /\ t.stack = s.stack
              /\ t.outcome = "ok" => s.outcome = "ok" /\ level \notin 0..MaxDepth
           \/ /\ s.outcome = "ok" /\ level \in 0..MaxDepth /\ (level = 0 \/ s.stack = << >>)
              /\ t.parent = Append(s.parent, <<n + 1, Root>>) /\ t.stack = <<n + 1>>
           \/ /\ s.outcome = "ok" /\ level \in 1..MaxDepth /\ level \in DOMAIN s.stack
              /\ t.parent = Append(s.parent, <<n + 1, s.stack[level]>>)
              /\ t.stack = Append(SubSeq(s.stack, 1, level), n + 1)
    BY <1>2, <1>6, RowRead, ZenonT(60)
  <1> QED BY <1>3, <1>4, <1>5, <1>7

\* What is known of every list that was read to its end.
LEMMA ListRead ==
  ASSUME NEW list \in Lists
  PROVE  Nested(Parse[list], Len(list)) /\ LevelsRead(list, Parse[list], Len(list))
  <1>1. PICK f : /\ ReadList(list) = f[Len(list)]
                 /\ f = [n \in 0..Len(list) |-> IF n = 0 THEN Unread ELSE ReadRow(f[n - 1], n, list[n])]
    BY ReadExists
  <1>2. Len(list) \in Nat
    BY ListType
  <1>3. \A n \in 0..Len(list) : f[n] = IF n = 0 THEN Unread ELSE ReadRow(f[n - 1], n, list[n])
    BY <1>1
  <1> DEFINE IsKnown(n) == Nested(f[n], n) /\ LevelsRead(list, f[n], n)
             Bad == {n \in 0..Len(list) : ~IsKnown(n)}
  <1>4. IsKnown(0)
    <2>1. f[0] = Unread
      BY <1>2, <1>3
    <2>2. Unread \in ReadStates /\ Unread.parent = << >> /\ Unread.stack = << >>
      BY DEF Unread, ReadStates
    <2>3. KeptUpTo(list, 0) = {}
      BY <1>2 DEF KeptUpTo, Kept
    <2> QED BY <2>1, <2>2, <2>3 DEF Nested, LevelsRead, Spine, Placing
  <1>5. ASSUME Bad # {} PROVE FALSE
    <2>1. PICK b \in Bad : \A k \in Bad : b <= k
      <3>1. Bad \subseteq Nat
        BY <1>2
      <3> HIDE DEF Bad
      <3> QED BY <1>5, <3>1, Least
    <2>2. b \in 1..Len(list) /\ ~IsKnown(b)
      BY <1>2, <1>4, <2>1
    <2>3. PICK n \in Nat : b = n + 1
      BY <1>2, <2>2
    <2>4. n \in 0..Len(list) /\ ~ (b <= n) /\ n + 1 \in 1..Len(list)
      BY <1>2, <2>2, <2>3
    <2>5. IsKnown(n)
      BY <2>1, <2>4
    <2>6. f[n + 1] = ReadRow(f[n], n + 1, list[n + 1])
      BY <1>3, <2>3, <2>4
    <2>7. IsKnown(n + 1)
      BY <2>4, <2>5, <2>6, RowKeeps
    <2> QED BY <2>2, <2>3, <2>7
  <1>6. IsKnown(Len(list))
    BY <1>2, <1>5
  <1> QED BY <1>1, <1>6 DEF Parse

(***************************************************************************)
(* The tree a list is stored as                                            *)
(***************************************************************************)
\* Rows are stored in their order, and a parent in the part of the row it names.
Inserted(new, version, tree) ==
  /\ Len(tree) \in Nat /\ new \in Seq(PartRows) /\ Len(new) = Len(parts) + Len(tree)
  /\ \A i \in 1..Len(parts) : new[i] = parts[i]
  /\ \A i \in 1..Len(tree) :
       /\ new[Len(parts) + i].doc = version /\ new[Len(parts) + i].row = tree[i][1]
       /\ tree[i][2] = Root => new[Len(parts) + i].parent = Root
       /\ tree[i][2] # Root => \E j \in 1..(i - 1) :
            tree[j][1] = tree[i][2] /\ new[Len(parts) + i].parent = Len(parts) + j

LEMMA TreeInserted ==
  ASSUME NEW list \in Lists, NEW version \in Nat, parts \in Seq(PartRows), NEW tree, tree = Parse[list].parent,
         NEW new, new = InsertTree(version, tree)
  PROVE  Inserted(new, version, tree)
  <1>1. PICK s : s = Parse[list]
    OBVIOUS
  <1>2. Nested(s, Len(list)) /\ tree = s.parent
    BY <1>1, ListRead
  <1>3. tree \in Seq(Nat \X Nat)
    BY <1>2, ReadStateType DEF Nested
  <1>4. PICK n : n = Len(tree)
    OBVIOUS
  <1>5. n \in Nat /\ DOMAIN tree = 1..n /\ \A i \in 1..n : tree[i] \in Nat \X Nat
    BY <1>3, <1>4
  <1>6. /\ \A i \in 1..n : tree[i][2] = Root \/ \E j \in 1..(i - 1) : tree[j][1] = tree[i][2]
        /\ \A i, j \in 1..n : i < j => tree[i][1] < tree[j][1]
    BY <1>2, <1>5 DEF Nested
  <1>7. PICK len : len = Len(parts)
    OBVIOUS
  <1>8. len \in Nat
    BY <1>7
  <1> DEFINE idOf(line) == len + (CHOOSE i \in 1..n : tree[i][1] = line)
             part(i) == [doc |-> version, row |-> tree[i][1],
                         parent |-> IF tree[i][2] = Root THEN Root ELSE idOf(tree[i][2])]
             added == [i \in 1..n |-> part(i)]
  <1>9. new = parts \o added
    BY <1>4, <1>7 DEF InsertTree
  <1>10. ASSUME NEW i \in 1..n, tree[i][2] # Root
         PROVE  \E j \in 1..(i - 1) : tree[j][1] = tree[i][2] /\ idOf(tree[i][2]) = len + j
    <2>1. PICK j \in 1..(i - 1) : tree[j][1] = tree[i][2]
      BY <1>6, <1>10
    <2>2. j \in 1..n
      BY <1>5, <2>1
    <2>3. PICK c : c = CHOOSE k \in 1..n : tree[k][1] = tree[i][2]
      OBVIOUS
    <2>4. c \in 1..n /\ tree[c][1] = tree[i][2]
      BY <2>1, <2>2, <2>3
    <2>5. ~ (c < j) /\ ~ (j < c)
      <3>1. tree[c][1] = tree[j][1] /\ tree[c][1] \in Nat
        BY <1>5, <2>1, <2>4
      <3> QED BY <1>6, <2>2, <2>4, <3>1
    <2>6. c = j
      BY <1>5, <2>2, <2>4, <2>5
    <2>7. idOf(tree[i][2]) = len + c
      BY <2>3
    <2> QED BY <2>1, <2>6, <2>7
  <1>11. ASSUME NEW i \in 1..n
         PROVE  /\ part(i) \in PartRows
                /\ part(i).doc = version /\ part(i).row = tree[i][1]
                /\ tree[i][2] = Root => part(i).parent = Root
                /\ tree[i][2] # Root => \E j \in 1..(i - 1) :
                     tree[j][1] = tree[i][2] /\ part(i).parent = len + j
    <2>1. CASE tree[i][2] = Root
      <3>1. part(i) = [doc |-> version, row |-> tree[i][1], parent |-> Root]
        BY <2>1
      <3>2. tree[i][1] \in Nat /\ Root \in Nat
        BY <1>5 DEF Root
      <3> QED BY <2>1, <3>1, <3>2 DEF PartRows
    <2>2. CASE tree[i][2] # Root
      <3>1. PICK j \in 1..(i - 1) : tree[j][1] = tree[i][2] /\ idOf(tree[i][2]) = len + j
        BY <1>10, <2>2
      <3>2. part(i) = [doc |-> version, row |-> tree[i][1], parent |-> len + j]
        BY <2>2, <3>1
      <3>3. tree[i][1] \in Nat /\ len + j \in Nat
        <4>1. tree[i] \in Nat \X Nat
          BY <1>5
        <4>2. j \in Nat
          BY <1>5
        <4> QED BY <1>8, <4>1, <4>2
      <3> HIDE DEF part
      <3>4. part(i) \in PartRows /\ part(i).doc = version /\ part(i).row = tree[i][1] /\ part(i).parent = len + j
        BY <3>2, <3>3 DEF PartRows
      <3> QED BY <2>2, <3>1, <3>4
    <2> QED BY <2>1, <2>2
  <1>12. PICK add : add = added
    OBVIOUS
  <1>13. add \in Seq(PartRows) /\ Len(add) = n /\ \A i \in 1..n : add[i] = part(i)
    <2> HIDE DEF part
    <2>1. \A i \in 1..n : part(i) \in PartRows
      BY <1>11
    <2>2. DOMAIN add = 1..n /\ \A i \in 1..n : add[i] = part(i)
      BY <1>12
    <2>3. add \in [1..n -> PartRows]
      BY <1>12, <2>1
    <2>4. add \in Seq(PartRows)
      BY <1>5, <1>12, <2>1
    <2>5. Len(add) = n
      BY <1>5, <2>2, <2>4
    <2> QED BY <2>2, <2>4, <2>5
  <1> HIDE DEF part
  <1>14. new = parts \o add
    BY <1>9, <1>12
  <1> HIDE DEF added
  <1>15. /\ new \in Seq(PartRows) /\ Len(new) = len + n
         /\ \A i \in 1..len : new[i] = parts[i]
         /\ \A i \in 1..n : new[len + i] = add[i]
    BY <1>5, <1>7, <1>8, <1>13, <1>14
  <1>16. \A i \in 1..n : new[len + i] = part(i)
    BY <1>13, <1>15
  <1>17. ASSUME NEW i \in 1..n
         PROVE  /\ new[len + i].doc = version /\ new[len + i].row = tree[i][1]
                /\ tree[i][2] = Root => new[len + i].parent = Root
                /\ tree[i][2] # Root => \E j \in 1..(i - 1) :
                     tree[j][1] = tree[i][2] /\ new[len + i].parent = len + j
    <2>1. new[len + i] = part(i)
      BY <1>16
    <2>2. /\ part(i).doc = version /\ part(i).row = tree[i][1]
          /\ tree[i][2] = Root => part(i).parent = Root
          /\ tree[i][2] # Root => \E j \in 1..(i - 1) :
               tree[j][1] = tree[i][2] /\ part(i).parent = len + j
      BY <1>11
    <2> QED BY <2>1, <2>2
  <1> HIDE DEF idOf
  <1>18. /\ n \in Nat /\ new \in Seq(PartRows) /\ Len(new) = len + n
         /\ \A i \in 1..len : new[i] = parts[i]
    BY <1>5, <1>15
  <1> QED BY <1>4, <1>7, <1>17, <1>18, ZenonT(60) DEF Inserted

(***************************************************************************)
(* What a commit leaves of the invariant                                   *)
(***************************************************************************)
LEMMA SinceGrows ==
  ASSUME acked \subseteq acked'
  PROVE  /\ \A from : ImportedSince(from) => ImportedSince(from)'
         /\ \A s, kinds : CommittedSince(s, kinds) => CommittedSince(s, kinds)'
  BY DEF ImportedSince, CommittedSince

LEMMA SaveType ==
  ASSUME acked \subseteq Saves, NEW s \in acked
  PROVE  /\ s.doc \in Nat /\ s.key \in Nat /\ s.from \in Nat /\ s.at \in Nat
         /\ s.kind \in {"part", "import", "device", "answer"}
  BY DEF Saves

LEMMA RequestType ==
  ASSUME DocTypeOK, NEW w \in Writers
  PROVE  /\ writing[w] = Quiet => writing[w].op = "none"
         /\ writing[w].op = "none" => writing[w] = Quiet
         /\ writing[w].op # "none" => writing[w].from \in Nat
         /\ writing[w].op = "save" => writing[w] \in Saving
         /\ writing[w].op = "import" => writing[w] \in Importing
         /\ writing[w].op = "device" => writing[w] \in Capturing
         /\ writing[w].op = "answer" => writing[w] \in Answering
  <1>1. writing[w] \in {Quiet} \cup Saving \cup Importing \cup Capturing \cup Answering
    BY DEF DocTypeOK, Requested
  <1>2. CASE writing[w] = Quiet
    <2>1. writing[w].op = "none"
      BY <1>2 DEF Quiet
    <2> QED BY <1>2, <2>1
  <1>3. CASE writing[w] \in Saving
    <2>1. writing[w].op = "save" /\ writing[w].from \in Nat
      BY <1>3 DEF Saving
    <2>2. writing[w] # Quiet
      BY <2>1 DEF Quiet
    <2> QED BY <1>3, <2>1, <2>2
  <1>4. CASE writing[w] \in Importing
    <2>1. writing[w].op = "import" /\ writing[w].from \in Nat
      BY <1>4 DEF Importing
    <2>2. writing[w] # Quiet
      BY <2>1 DEF Quiet
    <2> QED BY <1>4, <2>1, <2>2
  <1>5. CASE writing[w] \in Capturing
    <2>1. writing[w].op = "device" /\ writing[w].from \in Nat
      BY <1>5 DEF Capturing
    <2>2. writing[w] # Quiet
      BY <2>1 DEF Quiet
    <2> QED BY <1>5, <2>1, <2>2
  <1>6. CASE writing[w] \in Answering
    <2>1. writing[w].op = "answer" /\ writing[w].from \in Nat
      BY <1>6 DEF Answering
    <2>2. writing[w] # Quiet
      BY <2>1 DEF Quiet
    <2> QED BY <1>6, <2>1, <2>2
  <1> QED BY <1>1, <1>2, <1>3, <1>4, <1>5, <1>6

\* The tables as a commit may change them: versions and parts are appended, and
\* a version is appended only by a save of its kind.
Grown(s) ==
  /\ hardware' \in Seq(Lists \cup {<< >>}) /\ parts' \in Seq(PartRows) /\ devices' \in Seq(Devices)
  /\ Len(hardware) <= Len(hardware') /\ Len(parts) <= Len(parts') /\ Len(devices) <= Len(devices')
  /\ \A i \in 1..Len(parts) : parts'[i] = parts[i]
  /\ Len(hardware') = Len(hardware) \/ s.kind = "import" \/ (Len(hardware) = 0 /\ Len(hardware') = 1)
  /\ Len(devices') = Len(devices) \/ s.kind = "device"
  /\ Cardinality(documents') = Cardinality(documents)
  /\ documents' = documents \/ s.kind = "answer"

\* The saves of before, and the one that is answered now.
LEMMA CommitKeepsSaves ==
  ASSUME DocInv, NEW w \in Writers, writing[w].op # "none", NEW s \in Saves,
         s.from = writing[w].from, s.at = ticks, ticks' = ticks, acked' = acked \cup {s},
         Grown(s), Stored(s)'
  PROVE  SavesAreStored'
  <1>1. /\ DocTypeOK /\ DocumentsAreCounted /\ PartsAreBelow /\ WritesAreCurrent /\ SavesAreStored
        /\ acked \subseteq Saves /\ ticks \in Nat
    BY DEF DocInv, DocTypeOK
  <1>2. /\ \A from : ImportedSince(from) => ImportedSince(from)'
        /\ \A o, kinds : CommittedSince(o, kinds) => CommittedSince(o, kinds)'
    BY SinceGrows
  <1>3. ASSUME NEW o \in acked PROVE Stored(o)'
    <2>1. /\ o.doc \in Nat /\ o.key \in Nat /\ o.from \in Nat /\ o.at \in Nat
          /\ o.kind \in {"part", "import", "device", "answer"}
      BY <1>1, SaveType
    <2>2. Stored(o) /\ o # s
      BY <1>1 DEF SavesAreStored, WritesAreCurrent, Current
    <2>3. s.at >= o.from /\ s \in acked' \ {o}
      BY <1>1, <2>1, <2>2 DEF Stored
    <2>4. /\ s.kind = "import" => ImportedSince(o.from)'
          /\ \A kinds : s.kind \in kinds => CommittedSince(o, kinds)'
      BY <2>3 DEF ImportedSince, CommittedSince
    <2>5. o.from <= o.at /\ o.at <= ticks'
      BY <2>2 DEF Stored
    <2>6. ASSUME o.kind = "part"
          PROVE  /\ o.key \in 1..Len(parts') /\ parts'[o.key].doc = o.doc
                 /\ o.doc < Len(hardware') => ImportedSince(o.from)'
      <3>1. /\ o.key \in 1..Len(parts) /\ parts[o.key].doc = o.doc
            /\ o.doc < Len(hardware) => ImportedSince(o.from)
        BY <2>2, <2>6 DEF Stored
      <3>2. /\ Len(parts) \in Nat /\ Len(parts') \in Nat /\ Len(parts) <= Len(parts')
            /\ parts'[o.key] = parts[o.key] /\ Len(hardware) \in Nat /\ Len(hardware') \in Nat
        BY <1>1, <3>1, SMTT(60) DEF Grown, DocTypeOK
      <3>3. o.doc \in 1..Len(hardware)
        BY <1>1, <3>1 DEF PartsAreBelow
      <3>4. o.doc < Len(hardware') => o.doc < Len(hardware) \/ s.kind = "import"
        BY <2>1, <3>2, <3>3 DEF Grown
      <3>5. o.key \in 1..Len(parts')
        BY <3>1, <3>2
      <3> QED BY <1>2, <2>4, <3>1, <3>2, <3>4, <3>5
    <2>7. ASSUME o.kind = "import"
          PROVE  o.doc \in 1..Len(hardware') /\ (o.doc < Len(hardware') => CommittedSince(o, {"import"})')
      <3>1. o.doc \in 1..Len(hardware) /\ (o.doc < Len(hardware) => CommittedSince(o, {"import"}))
        BY <2>2, <2>7 DEF Stored
      <3>2. Len(hardware) \in Nat /\ Len(hardware') \in Nat
        BY <1>1 DEF Grown, DocTypeOK
      <3>3. o.doc < Len(hardware') => o.doc < Len(hardware) \/ s.kind = "import"
        BY <2>1, <3>1, <3>2 DEF Grown
      <3>4. o.doc \in 1..Len(hardware')
        BY <3>1, <3>2 DEF Grown
      <3> QED BY <1>2, <2>4, <3>1, <3>3, <3>4
    <2>8. ASSUME o.kind = "device"
          PROVE  o.doc \in 1..Len(devices') /\ (o.doc < Len(devices') => CommittedSince(o, {"device"})')
      <3>1. o.doc \in 1..Len(devices) /\ (o.doc < Len(devices) => CommittedSince(o, {"device"}))
        BY <2>2, <2>8 DEF Stored
      <3>2. Len(devices) \in Nat /\ Len(devices') \in Nat
        BY <1>1 DEF Grown, DocTypeOK
      <3>3. o.doc < Len(devices') => o.doc < Len(devices) \/ s.kind = "device"
        BY <2>1, <3>1, <3>2 DEF Grown
      <3>4. o.doc \in 1..Len(devices')
        BY <3>1, <3>2 DEF Grown
      <3> QED BY <1>2, <2>4, <3>1, <3>3, <3>4
    <2>9. ASSUME o.kind = "answer"
          PROVE  /\ o.key = o.from /\ o.doc \in 1..Cardinality(documents')
                 /\ \A d \in documents' : d.id = o.doc => d.answers = o.key \/ CommittedSince(o, {"answer"})'
      <3>1. /\ o.key = o.from /\ o.doc \in 1..Cardinality(documents)
            /\ \A d \in documents : d.id = o.doc => d.answers = o.key \/ CommittedSince(o, {"answer"})
        BY <2>2, <2>9 DEF Stored
      <3>2. Cardinality(documents') = Cardinality(documents) /\ (documents' = documents \/ s.kind = "answer")
        BY DEF Grown
      <3>3. s.kind = "answer" => CommittedSince(o, {"answer"})'
        BY <2>4
      <3> HIDE DEF CommittedSince
      <3> QED BY <1>2, <3>1, <3>2, <3>3
    <2> QED BY <2>5, <2>6, <2>7, <2>8, <2>9 DEF Stored
  <1> QED BY <1>3 DEF SavesAreStored

\* The requests that are still in flight.
LEMMA CommitKeepsWrites ==
  ASSUME DocInv, NEW w \in Writers, writing[w].op # "none", NEW s \in Saves,
         s.from = writing[w].from, s.at = ticks, ticks' = ticks, acked' = acked \cup {s},
         writing' = [writing EXCEPT ![w] = Quiet], Grown(s)
  PROVE  WritesAreCurrent'
  <1>1. /\ DocTypeOK /\ WritesAreCurrent /\ ticks \in Nat
        /\ writing \in [Writers -> {Quiet} \cup Requested]
    BY DEF DocInv, DocTypeOK
  <1>2. writing'[w].op = "none" /\ \A v \in Writers \ {w} : writing'[v] = writing[v]
    BY <1>1 DEF Quiet
  <1>3. /\ \A from : ImportedSince(from) => ImportedSince(from)'
    BY SinceGrows
  <1>4. ASSUME NEW v \in Writers \ {w}, writing[v].op # "none"
        PROVE  Current(v)'
    <2>1. Current(v) /\ Current(w)
      BY <1>1 DEF WritesAreCurrent
    <2>2. PICK r : r = writing[v]
      OBVIOUS
    <2>3. writing'[v] = r
      BY <1>2, <2>2
    <2>4. r.from \in 1..ticks' /\ \A o \in acked' : o.from # r.from
      BY <1>4, <2>1, <2>2 DEF Current
    <2>5. \A u \in Writers \ {v} : writing'[u].op # "none" => writing'[u].from # r.from
      BY <1>2, <1>4, <2>1, <2>2 DEF Current
    <2>6. ASSUME r.op = "save"
          PROVE  /\ r.doc <= Len(hardware') /\ r.parent <= Len(parts')
                 /\ r.doc \in 1..(Len(hardware') - 1) => ImportedSince(r.from)'
      <3>1. r \in Saving
        BY <1>1, <2>2, <2>6, RequestType
      <3>2. r.doc \in Nat /\ r.parent \in Nat /\ r.from \in Nat
        BY <3>1 DEF Saving
      <3>3. /\ r.doc <= Len(hardware) /\ r.parent <= Len(parts)
            /\ r.doc \in 1..(Len(hardware) - 1) => ImportedSince(r.from)
        BY <1>4, <2>1, <2>2, <2>6 DEF Current
      <3>4. /\ Len(hardware) \in Nat /\ Len(hardware') \in Nat /\ Len(parts) \in Nat /\ Len(parts') \in Nat
            /\ Len(hardware) <= Len(hardware') /\ Len(parts) <= Len(parts')
        BY <1>1 DEF Grown, DocTypeOK
      <3>5. s.kind = "import" => ImportedSince(r.from)'
        BY <1>1, <2>4, <3>2 DEF ImportedSince
      <3>6. r.doc \in 1..(Len(hardware') - 1) => r.doc \in 1..(Len(hardware) - 1) \/ s.kind = "import"
        BY <3>2, <3>3, <3>4 DEF Grown
      <3>7. r.doc <= Len(hardware') /\ r.parent <= Len(parts')
        BY <3>2, <3>3, <3>4
      <3> QED BY <1>3, <3>3, <3>5, <3>6, <3>7
    <2>7. /\ r.op = "import" => Parse[r.list].outcome = "ok"
          /\ r.op = "answer" => r.doc \in 1..Cardinality(documents')
      BY <1>4, <2>1, <2>2 DEF Current, Grown
    <2> QED BY <2>3, <2>4, <2>5, <2>6, <2>7 DEF Current
  <1>5. ASSUME NEW v \in Writers, writing'[v].op # "none" PROVE Current(v)'
    BY <1>2, <1>4, <1>5
  <1>6. ASSUME NEW v \in Writers PROVE Current(v)'
    <2>1. CASE writing'[v].op = "none"
      BY <2>1 DEF Current
    <2> QED BY <1>5, <2>1
  <1> QED BY <1>6 DEF WritesAreCurrent

(***************************************************************************)
(* The invariant holds                                                     *)
(***************************************************************************)
LEMMA DocStart == DocInit => DocInv
  <1> SUFFICES ASSUME DocInit PROVE DocInv
    OBVIOUS
  <1>1. DocTypeOK
    BY DEF DocInit, DocTypeOK
  <1>2. DocumentsAreCounted
    BY FS_EmptySet DEF DocInit, DocumentsAreCounted
  <1>3. PartsAreBelow /\ ListsArePlaced /\ SavesAreStored
    BY DEF DocInit, PartsAreBelow, ListsArePlaced, SavesAreStored
  <1>4. \A w \in Writers : writing[w].op = "none"
    BY DEF DocInit, Quiet
  <1>5. WritesAreCurrent
    BY <1>4 DEF WritesAreCurrent, Current
  <1> QED BY <1>1, <1>2, <1>3, <1>5 DEF DocInv

\* Nothing is stored: what is stored already stays as it was promised.
LEMMA SavesStay ==
  ASSUME DocInv, UNCHANGED <<hardware, parts, devices, acked>>,
         ticks' \in Nat, ticks <= ticks', Cardinality(documents') \in Nat,
         Cardinality(documents) <= Cardinality(documents'),
         \A d \in documents' : d.id \in 1..Cardinality(documents) => d \in documents
  PROVE  PartsAreBelow' /\ ListsArePlaced' /\ SavesAreStored'
  <1>1. /\ PartsAreBelow /\ ListsArePlaced /\ SavesAreStored /\ DocumentsAreCounted
        /\ acked \subseteq Saves /\ ticks \in Nat
    BY DEF DocInv, DocTypeOK
  <1>2. PartsAreBelow' /\ ListsArePlaced'
    BY <1>1 DEF PartsAreBelow, ListsArePlaced, RowsPlaced
  <1>3. Cardinality(documents) \in Nat
    BY <1>1, FS_CardinalityType DEF DocumentsAreCounted
  <1>4. ASSUME NEW s \in acked PROVE Stored(s)'
    <2>1. Stored(s)
      BY <1>1 DEF SavesAreStored
    <2>2. s.from \in Nat /\ s.at \in Nat
      BY <1>1, SaveType
    <2>3. s.from <= s.at /\ s.at <= ticks'
      BY <1>1, <2>1, <2>2 DEF Stored
    <2>4. /\ \A from : ImportedSince(from)' = ImportedSince(from)
          /\ \A kinds : CommittedSince(s, kinds)' = CommittedSince(s, kinds)
      BY DEF ImportedSince, CommittedSince
    <2>5. ASSUME s.kind = "answer"
          PROVE  /\ s.key = s.from /\ s.doc \in 1..Cardinality(documents')
                 /\ \A d \in documents' : d.id = s.doc => d.answers = s.key \/ CommittedSince(s, {"answer"})'
      <3>1. /\ s.key = s.from /\ s.doc \in 1..Cardinality(documents)
            /\ \A d \in documents : d.id = s.doc => d.answers = s.key \/ CommittedSince(s, {"answer"})
        BY <2>1, <2>5 DEF Stored
      <3>2. s.doc \in 1..Cardinality(documents')
        BY <1>3, <3>1
      <3> HIDE DEF CommittedSince
      <3> QED BY <2>4, <3>1, <3>2
    <2> QED BY <2>1, <2>3, <2>4, <2>5 DEF Stored
  <1> QED BY <1>2, <1>4 DEF SavesAreStored

\* A request begins with what it read, at a time of its own.
LEMMA BeginKeeps ==
  ASSUME DocInv, NEW w \in Writers, NEW r \in Requested, Begin(w, r), r.from = ticks + 1, r.op # "none",
         r.op = "save" => r.doc = Len(hardware) /\ r.parent <= Len(parts),
         r.op = "import" => Parse[r.list].outcome = "ok",
         r.op = "answer" => r.doc \in 1..Cardinality(documents)
  PROVE  DocInv'
  <1>1. /\ DocTypeOK /\ DocumentsAreCounted /\ WritesAreCurrent /\ SavesAreStored
        /\ acked \subseteq Saves /\ ticks \in Nat
        /\ writing \in [Writers -> {Quiet} \cup Requested]
    BY DEF DocInv, DocTypeOK
  <1>2. /\ ticks' = ticks + 1 /\ writing' = [writing EXCEPT ![w] = r]
        /\ UNCHANGED <<scans, documents, hardware, parts, devices, acked>>
    BY DEF Begin
  <1>3. DocTypeOK'
    BY <1>1, <1>2 DEF DocTypeOK
  <1>4. DocumentsAreCounted'
    BY <1>1, <1>2 DEF DocumentsAreCounted
  <1>5. Cardinality(documents) \in Nat
    BY <1>1, FS_CardinalityType DEF DocumentsAreCounted
  <1>6. PartsAreBelow' /\ ListsArePlaced' /\ SavesAreStored'
    BY <1>1, <1>2, <1>5, SavesStay
  <1>7. writing'[w] = r /\ \A v \in Writers \ {w} : writing'[v] = writing[v]
    BY <1>1, <1>2
  <1>8. \A v \in Writers : writing[v].op # "none" => writing[v].from \in 1..ticks
    BY <1>1 DEF WritesAreCurrent, Current
  <1>9. \A s \in acked : s.from \in Nat /\ s.from <= ticks
    BY <1>1, SaveType DEF SavesAreStored, Stored
  <1>10. \A from : ImportedSince(from)' = ImportedSince(from)
    BY <1>2 DEF ImportedSince
  <1>11. Current(w)'
    <2>1. r.from \in 1..ticks' /\ \A s \in acked' : s.from # r.from
      BY <1>1, <1>2, <1>9
    <2>2. \A v \in Writers \ {w} : writing'[v].op # "none" => writing'[v].from # r.from
      BY <1>1, <1>7, <1>8
    <2>3. r.op = "save" => /\ r.doc <= Len(hardware') /\ r.parent <= Len(parts')
                           /\ r.doc \notin 1..(Len(hardware') - 1)
      <3>1. Len(hardware) \in Nat
        BY <1>1 DEF DocTypeOK
      <3> QED BY <1>2, <3>1
    <2> QED BY <1>2, <1>7, <2>1, <2>2, <2>3 DEF Current
  <1>12. ASSUME NEW v \in Writers \ {w} PROVE Current(v)'
    <2>1. Current(v)
      BY <1>1 DEF WritesAreCurrent
    <2>2. \A u \in Writers \ {v} : writing[v].op # "none" /\ writing'[u].op # "none" => writing'[u].from # writing[v].from
      <3>1. writing[v].op # "none" => r.from # writing[v].from
        BY <1>1, <1>8
      <3> QED BY <1>7, <2>1, <3>1 DEF Current
    <2>3. writing[v].op # "none" => writing[v].from \in 1..ticks'
      BY <1>1, <1>2, <1>8
    <2>4. writing'[v] = writing[v]
      BY <1>7
    <2> QED BY <1>2, <1>10, <2>1, <2>2, <2>3, <2>4 DEF Current
  <1>13. WritesAreCurrent'
    BY <1>11, <1>12 DEF WritesAreCurrent
  <1> QED BY <1>3, <1>4, <1>6, <1>13 DEF DocInv

LEMMA RollBackKeeps ==
  ASSUME DocInv, NEW w \in Writers, RollBack(w)
  PROVE  DocInv'
  <1>1. /\ DocTypeOK /\ DocumentsAreCounted /\ WritesAreCurrent /\ ticks \in Nat
        /\ writing \in [Writers -> {Quiet} \cup Requested]
    BY DEF DocInv, DocTypeOK
  <1>2. /\ writing' = [writing EXCEPT ![w] = Quiet]
        /\ UNCHANGED <<scans, documents, hardware, parts, devices, acked, ticks>>
    BY DEF RollBack
  <1>3. DocTypeOK'
    BY <1>1, <1>2 DEF DocTypeOK
  <1>4. DocumentsAreCounted'
    BY <1>1, <1>2 DEF DocumentsAreCounted
  <1>5. Cardinality(documents) \in Nat
    BY <1>1, FS_CardinalityType DEF DocumentsAreCounted
  <1>6. PartsAreBelow' /\ ListsArePlaced' /\ SavesAreStored'
    BY <1>1, <1>2, <1>5, SavesStay
  <1>7. writing'[w].op = "none" /\ \A v \in Writers \ {w} : writing'[v] = writing[v]
    BY <1>1, <1>2 DEF Quiet
  <1>8. \A from : ImportedSince(from)' = ImportedSince(from)
    BY <1>2 DEF ImportedSince
  <1>9. ASSUME NEW v \in Writers PROVE Current(v)'
    <2>1. CASE v = w
      BY <1>7, <2>1 DEF Current
    <2>2. CASE v # w
      <3>1. Current(v) /\ writing'[v] = writing[v]
        BY <1>1, <1>7, <2>2 DEF WritesAreCurrent
      <3>2. \A u \in Writers \ {v} : writing'[u].op # "none" => writing'[u] = writing[u]
        BY <1>7
      <3> QED BY <1>2, <1>8, <3>1, <3>2 DEF Current
    <2> QED BY <2>1, <2>2
  <1> QED BY <1>3, <1>4, <1>6, <1>9 DEF DocInv, WritesAreCurrent

LEMMA ScanKeeps ==
  ASSUME DocInv, StartScan
  PROVE  DocInv'
  <1>1. DocTypeOK /\ DocumentsAreCounted /\ WritesAreCurrent /\ ticks \in Nat /\ scans \in Nat
    BY DEF DocInv, DocTypeOK
  <1>2. scans' = scans + 1 /\ UNCHANGED <<documents, hardware, parts, devices, writing, acked, ticks>>
    BY DEF StartScan
  <1>3. DocTypeOK'
    BY <1>1, <1>2 DEF DocTypeOK
  <1>4. DocumentsAreCounted'
    <2>1. 1..scans \subseteq 1..scans'
      BY <1>1, <1>2
    <2> QED BY <1>1, <1>2, <2>1 DEF DocumentsAreCounted
  <1>5. Cardinality(documents) \in Nat
    BY <1>1, FS_CardinalityType DEF DocumentsAreCounted
  <1>6. PartsAreBelow' /\ ListsArePlaced' /\ SavesAreStored'
    BY <1>1, <1>2, <1>5, SavesStay
  <1>7. WritesAreCurrent'
    BY <1>1, <1>2 DEF WritesAreCurrent, Current, ImportedSince
  <1> QED BY <1>3, <1>4, <1>6, <1>7 DEF DocInv

\* The normalizer's document is counted next.
LEMMA NormalizeKeeps ==
  ASSUME DocInv, NEW sc \in 1..scans, NEW type \in Types, NormalizeScan(sc, type)
  PROVE  DocInv'
  <1>1. /\ DocTypeOK /\ DocumentsAreCounted /\ WritesAreCurrent /\ ticks \in Nat /\ scans \in Nat
        /\ IsFiniteSet(documents) /\ documents \subseteq DocumentRows
    BY DEF DocInv, DocTypeOK, DocumentsAreCounted
  <1>2. PICK n, m : n = Cardinality(documents)
                    /\ m = Cardinality({d \in documents : d.scan = sc /\ d.type = type})
    OBVIOUS
  <1>3. n \in Nat /\ m \in Nat /\ m <= n
    BY <1>1, <1>2, FS_CardinalityType, FS_Subset
  <1>4. PICK new : new = [id |-> n + 1, type |-> type, scan |-> sc, version |-> m + 1, answers |-> 0]
    OBVIOUS
  <1>5. documents' = documents \cup {new} /\ UNCHANGED <<scans, hardware, parts, devices, writing, acked, ticks>>
    BY <1>2, <1>4 DEF NormalizeScan
  <1>6. /\ new \in DocumentRows /\ new.id = n + 1 /\ new.scan \in 1..scans
        /\ new.version \in 1..(n + 1) /\ new \notin documents
    <2>1. new \in DocumentRows
      BY <1>1, <1>3, <1>4 DEF DocumentRows
    <2>2. new.id = n + 1 /\ new.scan = sc /\ new.version = m + 1
      BY <1>4
    <2>3. new \notin documents
      BY <1>1, <1>2, <1>3, <2>2 DEF DocumentsAreCounted
    <2> QED BY <1>3, <2>1, <2>2, <2>3
  <1>7. IsFiniteSet(documents') /\ Cardinality(documents') = n + 1
    BY <1>1, <1>2, <1>5, <1>6, FS_AddElement
  <1>8. DocTypeOK'
    BY <1>1, <1>5, <1>6 DEF DocTypeOK
  <1>9. DocumentsAreCounted'
    <2>1. \A d \in documents : d.id \in 1..n /\ d.version \in 1..n /\ d.scan \in 1..scans
      BY <1>1, <1>2 DEF DocumentsAreCounted
    <2>2. \A d \in documents' : /\ d.id \in 1..(n + 1) /\ d.version \in 1..(n + 1) /\ d.scan \in 1..scans'
      BY <1>3, <1>5, <1>6, <2>1
    <2>3. \A d, e \in documents' : d.id = e.id => d = e
      BY <1>1, <1>3, <1>5, <1>6, <2>1 DEF DocumentsAreCounted
    <2> QED BY <1>7, <2>2, <2>3 DEF DocumentsAreCounted
  <1>10. PartsAreBelow' /\ ListsArePlaced' /\ SavesAreStored'
    <2>1. \A d \in documents' : d.id \in 1..n => d \in documents
      BY <1>3, <1>5, <1>6
    <2>2. n <= Cardinality(documents') /\ Cardinality(documents') \in Nat /\ ticks' = ticks
      BY <1>3, <1>5, <1>7
    <2> QED BY <1>1, <1>2, <1>5, <2>1, <2>2, SavesStay
  <1>11. WritesAreCurrent'
    <2>1. 1..Cardinality(documents) \subseteq 1..Cardinality(documents')
      BY <1>2, <1>3, <1>7
    <2> QED BY <1>1, <1>5, <2>1 DEF WritesAreCurrent, Current, ImportedSince
  <1> QED BY <1>8, <1>9, <1>10, <1>11 DEF DocInv

\* A node and its child: parts of one version, the last of which is current or was
\* replaced meanwhile.
LEMMA UpsertEffect ==
  ASSUME DocInv, NEW w \in Writers, UpsertNode(w)
  PROVE  \E doc \in 1..Len(hardware'), key \in 1..Len(parts') :
    /\ writing[w].op = "save" /\ writing[w] \in Saving
    /\ doc = IF writing[w].doc = 0 THEN 1 ELSE writing[w].doc
    /\ hardware' \in Seq(Lists \cup {<< >>}) /\ parts' \in Seq(PartRows)
    /\ IF writing[w].doc = 0 THEN Len(hardware) = 0 /\ Len(hardware') = 1 /\ hardware'[1] = << >>
                             ELSE hardware' = hardware
    /\ Len(parts) <= Len(parts') /\ \A i \in 1..Len(parts) : parts'[i] = parts[i]
    /\ \A i \in 1..Len(parts') : i \notin 1..Len(parts) => parts'[i].parent < i /\ parts'[i].doc = doc
    /\ parts'[key].doc = doc
    /\ writing' = [writing EXCEPT ![w] = Quiet]
    /\ acked' = acked \cup {[kind |-> "part", doc |-> doc, key |-> key, from |-> writing[w].from, at |-> ticks]}
    /\ UNCHANGED <<scans, documents, devices, ticks>>
  <1>1. DocTypeOK /\ WritesAreCurrent /\ hardware \in Seq(Lists \cup {<< >>}) /\ parts \in Seq(PartRows)
    BY DEF DocInv, DocTypeOK
  <1>2. PICK r : r = writing[w]
    OBVIOUS
  <1>3. r.op = "save"
    BY <1>2 DEF UpsertNode
  <1>4. r \in Saving /\ r.doc \in Nat /\ r.id \in Nat /\ r.parent \in Nat /\ r.child \in BOOLEAN
    BY <1>1, <1>2, <1>3, RequestType DEF Saving
  <1>5. r.doc <= Len(hardware) /\ r.parent <= Len(parts)
    BY <1>1, <1>2, <1>3 DEF WritesAreCurrent, Current
  <1>6. PICK doc : doc = IF r.doc = 0 THEN 1 ELSE r.doc
    OBVIOUS
  <1>7. PICK len : len = Len(parts)
    OBVIOUS
  <1>8. len \in Nat /\ doc \in Nat /\ DOMAIN parts = 1..len
    BY <1>1, <1>4, <1>6, <1>7
  <1>9. PICK new : new = [doc |-> doc, parent |-> r.parent, row |-> 0]
    OBVIOUS
  <1>10. new \in PartRows /\ new.doc = doc /\ new.parent = r.parent
    BY <1>4, <1>8, <1>9 DEF PartRows
  <1>11. PICK up, node : /\ up = IF r.id = Root THEN Append(parts, new) ELSE parts
                         /\ node = IF r.id = Root THEN Len(up) ELSE r.id
    OBVIOUS
  <1>12. /\ r.doc = 0 => hardware = << >>
         /\ r.id # Root => ScopedToDocument(r.id, doc)
         /\ hardware' = IF r.doc = 0 THEN <<(<< >>)>> ELSE hardware
         /\ parts' = IF r.child THEN Append(up, [new EXCEPT !.parent = node]) ELSE up
         /\ Answer(w, Save(w, "part", doc, node))
         /\ UNCHANGED <<documents, devices>>
    BY <1>2, <1>6, <1>9, <1>11 DEF UpsertNode
  <1>13. /\ up \in Seq(PartRows) /\ len <= Len(up) /\ Len(up) \in Nat
         /\ \A i \in 1..len : up[i] = parts[i]
         /\ \A i \in 1..Len(up) : i \notin 1..len => up[i] = new /\ new.parent < i
         /\ node \in 1..Len(up) /\ up[node].doc = doc
    <2>1. CASE r.id = Root
      <3>1. up = Append(parts, new) /\ node = Len(up)
        BY <1>11, <2>1
      <3>2. /\ up \in Seq(PartRows) /\ Len(up) = len + 1 /\ up[len + 1] = new
            /\ \A i \in 1..len : up[i] = parts[i]
        BY <1>1, <1>7, <1>10, <3>1
      <3>3. \A i \in 1..(len + 1) : i \notin 1..len => i = len + 1
        BY <1>8
      <3>4. new.parent < len + 1 /\ len + 1 \in 1..(len + 1)
        BY <1>4, <1>5, <1>7, <1>8, <1>10
      <3> QED BY <1>8, <1>10, <3>1, <3>2, <3>3, <3>4
    <2>2. CASE r.id # Root
      <3>1. up = parts /\ node = r.id
        BY <1>11, <2>2
      <3>2. node \in 1..len /\ parts[node].doc = doc
        BY <1>8, <1>12, <2>2, <3>1 DEF ScopedToDocument, Nodes
      <3> QED BY <1>1, <1>7, <1>8, <3>1, <3>2
    <2> QED BY <2>1, <2>2
  <1>14. PICK child : child = [new EXCEPT !.parent = node]
    OBVIOUS
  <1>15. child \in PartRows /\ child.doc = doc /\ child.parent = node
    <2>1. node \in Nat
      BY <1>13
    <2>2. new.row \in Nat /\ new = [doc |-> new.doc, parent |-> new.parent, row |-> new.row]
      BY <1>10 DEF PartRows
    <2>3. child = [doc |-> new.doc, parent |-> node, row |-> new.row]
      BY <1>14, <2>2
    <2> QED BY <1>8, <1>10, <2>1, <2>2, <2>3 DEF PartRows
  <1>16. /\ parts' \in Seq(PartRows) /\ Len(up) <= Len(parts') /\ Len(parts') \in Nat
         /\ \A i \in 1..Len(up) : parts'[i] = up[i]
         /\ \A i \in 1..Len(parts') : i \notin 1..Len(up) => parts'[i] = child /\ node < i
    <2>1. CASE r.child
      <3>1. parts' = Append(up, child)
        BY <1>12, <1>14, <2>1
      <3>2. PICK k : k = Len(up)
        OBVIOUS
      <3>3. /\ parts' \in Seq(PartRows) /\ Len(parts') = k + 1 /\ parts'[k + 1] = child
            /\ \A i \in 1..k : parts'[i] = up[i]
        BY <1>13, <1>15, <3>1, <3>2
      <3>4. k \in Nat /\ node < k + 1 /\ \A i \in 1..(k + 1) : i \notin 1..k => i = k + 1
        BY <1>13, <3>2
      <3> QED BY <3>2, <3>3, <3>4
    <2>2. CASE ~r.child
      BY <1>12, <1>13, <2>2
    <2> QED BY <2>1, <2>2
  <1>17. /\ Len(parts) <= Len(parts') /\ \A i \in 1..Len(parts) : parts'[i] = parts[i]
         /\ node \in 1..Len(parts') /\ parts'[node].doc = doc
    BY <1>7, <1>8, <1>13, <1>16, SMTT(60)
  <1>18. ASSUME NEW i \in 1..Len(parts'), i \notin 1..len PROVE parts'[i].parent < i /\ parts'[i].doc = doc
    <2>1. CASE i \in 1..Len(up)
      <3>1. parts'[i] = up[i] /\ up[i] = new /\ new.parent < i
        BY <1>13, <1>16, <1>18, <2>1
      <3> QED BY <1>10, <3>1
    <2>2. CASE i \notin 1..Len(up)
      BY <1>15, <1>16, <2>2
    <2> QED BY <2>1, <2>2
  <1>19. /\ hardware' \in Seq(Lists \cup {<< >>}) /\ doc \in 1..Len(hardware')
         /\ IF r.doc = 0 THEN Len(hardware) = 0 /\ Len(hardware') = 1 /\ hardware'[1] = << >>
                         ELSE hardware' = hardware
    <2>1. CASE r.doc = 0
      BY <1>6, <1>12, <2>1
    <2>2. CASE r.doc # 0
      BY <1>1, <1>4, <1>5, <1>6, <1>12, <2>2
    <2> QED BY <2>1, <2>2
  <1>20. /\ writing' = [writing EXCEPT ![w] = Quiet]
         /\ acked' = acked \cup {[kind |-> "part", doc |-> doc, key |-> node, from |-> r.from, at |-> ticks]}
         /\ UNCHANGED <<scans, documents, devices, ticks>>
    BY <1>2, <1>12 DEF Answer, Save
  <1>21. \A i \in 1..Len(parts') : i \notin 1..Len(parts) => parts'[i].parent < i /\ parts'[i].doc = doc
    BY <1>7, <1>18
  <1> QED BY <1>2, <1>3, <1>4, <1>6, <1>16, <1>17, <1>19, <1>20, <1>21

\* What the versions of before show stays where it is.
LEMMA RowsStay ==
  ASSUME DocInv, parts' \in Seq(PartRows), Len(parts) <= Len(parts'), \A i \in 1..Len(parts) : parts'[i] = parts[i],
         NEW v \in 1..Len(hardware), hardware'[v] = hardware[v]
  PROVE  RowsPlaced(v)'
  <1>1. RowsPlaced(v) /\ parts \in Seq(PartRows)
    BY DEF DocInv, ListsArePlaced, DocTypeOK
  <1>2. PICK list : list = hardware[v]
    OBVIOUS
  <1>3. PICK p : p = parts'
    OBVIOUS
  <1>4. Len(parts) \in Nat /\ Len(p) \in Nat /\ 1..Len(parts) \subseteq 1..Len(p)
    BY <1>1, <1>3
  <1>5. ASSUME StartsAtRoot(list), NEW line \in Kept(list)
        PROVE  \E i \in 1..Len(p) :
                 /\ p[i].doc = v /\ p[i].row = line
                 /\ Above(list, line) = Root => p[i].parent = Root
                 /\ Above(list, line) # Root => p[i].parent \in 1..(i - 1) /\ p[p[i].parent].row = Above(list, line)
    <2>1. PICK i \in 1..Len(parts) :
            /\ parts[i].doc = v /\ parts[i].row = line
            /\ Above(list, line) = Root => parts[i].parent = Root
            /\ Above(list, line) # Root => parts[i].parent \in 1..(i - 1) /\ parts[parts[i].parent].row = Above(list, line)
      BY <1>1, <1>2, <1>5 DEF RowsPlaced
    <2>2. 1..(i - 1) \subseteq 1..Len(parts)
      BY <1>4
    <2>3. p[i] = parts[i] /\ \A j \in 1..(i - 1) : p[j] = parts[j]
      BY <1>3, <2>1, <2>2
    <2>4. i \in 1..Len(p)
      BY <1>4
    <2> HIDE DEF Above
    <2> QED BY <2>1, <2>3, <2>4
  <1> QED BY <1>2, <1>3, <1>5 DEF RowsPlaced

LEMMA UpsertKeeps ==
  ASSUME DocInv, NEW w \in Writers, UpsertNode(w)
  PROVE  DocInv'
  <1>1. PICK doc \in 1..Len(hardware'), key \in 1..Len(parts') :
    /\ writing[w].op = "save" /\ writing[w] \in Saving
    /\ doc = IF writing[w].doc = 0 THEN 1 ELSE writing[w].doc
    /\ hardware' \in Seq(Lists \cup {<< >>}) /\ parts' \in Seq(PartRows)
    /\ IF writing[w].doc = 0 THEN Len(hardware) = 0 /\ Len(hardware') = 1 /\ hardware'[1] = << >>
                             ELSE hardware' = hardware
    /\ Len(parts) <= Len(parts') /\ \A i \in 1..Len(parts) : parts'[i] = parts[i]
    /\ \A i \in 1..Len(parts') : i \notin 1..Len(parts) => parts'[i].parent < i /\ parts'[i].doc = doc
    /\ parts'[key].doc = doc
    /\ writing' = [writing EXCEPT ![w] = Quiet]
    /\ acked' = acked \cup {[kind |-> "part", doc |-> doc, key |-> key, from |-> writing[w].from, at |-> ticks]}
    /\ UNCHANGED <<scans, documents, devices, ticks>>
    BY UpsertEffect
  <1>2. /\ DocTypeOK /\ DocumentsAreCounted /\ PartsAreBelow /\ WritesAreCurrent /\ ListsArePlaced
        /\ acked \subseteq Saves /\ ticks \in Nat /\ hardware \in Seq(Lists \cup {<< >>}) /\ parts \in Seq(PartRows)
        /\ devices \in Seq(Devices)
    BY DEF DocInv, DocTypeOK
  <1>3. PICK s : s = [kind |-> "part", doc |-> doc, key |-> key, from |-> writing[w].from, at |-> ticks]
    OBVIOUS
  <1>4. writing[w].from \in Nat /\ writing[w].doc \in Nat /\ writing[w].from \in 1..ticks
    BY <1>1, <1>2 DEF Saving, WritesAreCurrent, Current
  <1>5. doc \in Nat /\ key \in Nat
    BY <1>1
  <1>6. /\ s \in Saves /\ s.kind = "part" /\ s.doc = doc /\ s.key = key
        /\ s.from = writing[w].from /\ s.at = ticks
    BY <1>2, <1>3, <1>4, <1>5 DEF Saves
  <1>7. acked' = acked \cup {s}
    BY <1>1, <1>3
  <1>8. Len(hardware) \in Nat /\ Len(hardware') \in Nat /\ Len(hardware) <= Len(hardware')
    BY <1>1, <1>2
  <1>9. Grown(s)
    BY <1>1, <1>2, <1>6, <1>8 DEF Grown
  <1>10. Stored(s)'
    <2>1. s.doc < Len(hardware') => ImportedSince(s.from)'
      <3>1. CASE writing[w].doc = 0
        <4>1. doc = 1 /\ Len(hardware') = 1
          BY <1>1, <3>1
        <4>2. s.doc = doc
          BY <1>6
        <4> QED BY <4>1, <4>2
      <3>2. CASE writing[w].doc # 0
        <4>1. hardware' = hardware /\ s.doc = writing[w].doc
          BY <1>1, <1>6, <3>2
        <4>2. s.doc < Len(hardware) => writing[w].doc \in 1..(Len(hardware) - 1)
          BY <1>4, <1>8, <3>2, <4>1
        <4>3. s.doc < Len(hardware) => ImportedSince(writing[w].from)
          BY <1>1, <1>2, <4>2 DEF WritesAreCurrent, Current
        <4>4. ImportedSince(writing[w].from) => ImportedSince(s.from)'
          BY <1>6, <1>7 DEF ImportedSince
        <4> QED BY <4>1, <4>3, <4>4
      <3> QED BY <3>1, <3>2
    <2>2. s.from <= s.at /\ s.at <= ticks'
      <3>1. ticks' = ticks /\ writing[w].from <= ticks
        BY <1>1, <1>2, <1>4
      <3>2. s.from = writing[w].from /\ s.at = ticks
        BY <1>6
      <3> QED BY <1>2, <3>1, <3>2
    <2>3. s.key \in 1..Len(parts') /\ parts'[s.key].doc = s.doc
      BY <1>1, <1>6
    <2> QED BY <1>6, <2>1, <2>2, <2>3 DEF Stored
  <1>11. SavesAreStored' /\ WritesAreCurrent'
    BY <1>1, <1>6, <1>7, <1>9, <1>10, CommitKeepsSaves, CommitKeepsWrites
  <1>12. DocTypeOK'
    <2>1. writing' \in [Writers -> {Quiet} \cup Requested]
      BY <1>1, <1>2 DEF DocTypeOK
    <2>2. acked' \subseteq Saves
      BY <1>2, <1>6, <1>7
    <2> QED BY <1>1, <1>2, <2>1, <2>2 DEF DocTypeOK
  <1>13. DocumentsAreCounted'
    BY <1>1, <1>2 DEF DocumentsAreCounted
  <1>14. PartsAreBelow'
    <2>1. ASSUME NEW i \in 1..Len(parts') PROVE parts'[i].parent < i /\ parts'[i].doc \in 1..Len(hardware')
      <3>1. CASE i \in 1..Len(parts)
        <4>1. parts'[i] = parts[i] /\ parts[i].parent < i /\ parts[i].doc \in 1..Len(hardware)
          BY <1>1, <1>2, <3>1 DEF PartsAreBelow
        <4> QED BY <1>8, <4>1
      <3>2. CASE i \notin 1..Len(parts)
        BY <1>1, <3>2
      <3> QED BY <3>1, <3>2
    <2> QED BY <2>1 DEF PartsAreBelow
  <1>15. ListsArePlaced'
    <2>1. ASSUME NEW v \in 1..Len(hardware') PROVE RowsPlaced(v)'
      <3>1. CASE writing[w].doc = 0
        <4>1. hardware'[v] = << >>
          <5>1. Len(hardware') = 1 /\ hardware'[1] = << >>
            BY <1>1, <3>1
          <5>2. v = 1
            BY <2>1, <5>1
          <5> QED BY <5>1, <5>2
        <4>2. ~StartsAtRoot(<< >>)
          BY DEF StartsAtRoot, Kept
        <4> QED BY <4>1, <4>2 DEF RowsPlaced
      <3>2. CASE writing[w].doc # 0
        <4>1. v \in 1..Len(hardware) /\ hardware'[v] = hardware[v]
          BY <1>1, <2>1, <3>2
        <4> QED BY <1>1, <4>1, RowsStay
      <3> QED BY <3>1, <3>2
    <2> QED BY <2>1 DEF ListsArePlaced
  <1> QED BY <1>11, <1>12, <1>13, <1>14, <1>15 DEF DocInv

\* The next version, with the tree of the list that was imported.
LEMMA ReplaceEffect ==
  ASSUME DocInv, NEW w \in Writers, ReplaceHardwareTree(w)
  PROVE  \E version \in Nat, list \in Lists :
    /\ writing[w].op = "import" /\ writing[w] \in Importing
    /\ version = Len(hardware) + 1 /\ Parse[list].outcome = "ok"
    /\ hardware' \in Seq(Lists \cup {<< >>}) /\ Len(hardware') = version /\ hardware'[version] = list
    /\ \A v \in 1..Len(hardware) : hardware'[v] = hardware[v]
    /\ parts' = InsertTree(version, Parse[list].parent)
    /\ writing' = [writing EXCEPT ![w] = Quiet]
    /\ acked' = acked \cup {[kind |-> "import", doc |-> version, key |-> Root, from |-> writing[w].from, at |-> ticks]}
    /\ UNCHANGED <<scans, documents, devices, ticks>>
  <1>1. DocTypeOK /\ WritesAreCurrent /\ hardware \in Seq(Lists \cup {<< >>})
    BY DEF DocInv, DocTypeOK
  <1>2. PICK r : r = writing[w]
    OBVIOUS
  <1>3. r.op = "import" /\ r.version = Len(hardware) + 1
    BY <1>2 DEF ReplaceHardwareTree
  <1>4. r \in Importing /\ r.list \in Lists /\ r.version \in Nat
    BY <1>1, <1>2, <1>3, RequestType DEF Importing
  <1>5. Parse[r.list].outcome = "ok"
    BY <1>1, <1>2, <1>3 DEF WritesAreCurrent, Current
  <1>6. /\ hardware' = Append(hardware, r.list) /\ parts' = InsertTree(r.version, Parse[r.list].parent)
        /\ Answer(w, Save(w, "import", r.version, Root)) /\ UNCHANGED <<documents, devices>>
    BY <1>2 DEF ReplaceHardwareTree
  <1>7. PICK n, list : n = Len(hardware) /\ list = r.list
    OBVIOUS
  <1>8. /\ hardware' \in Seq(Lists \cup {<< >>}) /\ Len(hardware') = n + 1 /\ hardware'[n + 1] = list
        /\ \A v \in 1..n : hardware'[v] = hardware[v]
    BY <1>1, <1>4, <1>6, <1>7
  <1>9. /\ writing' = [writing EXCEPT ![w] = Quiet]
        /\ acked' = acked \cup {[kind |-> "import", doc |-> r.version, key |-> Root, from |-> r.from, at |-> ticks]}
        /\ UNCHANGED <<scans, ticks>>
    BY <1>2, <1>6 DEF Answer, Save
  <1>10. parts' = InsertTree(r.version, Parse[list].parent)
    BY <1>6, <1>7
  <1>11. r.version = n + 1
    BY <1>3, <1>7
  <1> QED BY <1>2, <1>3, <1>4, <1>5, <1>6, <1>7, <1>8, <1>9, <1>10, <1>11

\* Every row of a list that begins at level 0 is below the row it belongs to.
LEMMA ListIsPlaced ==
  ASSUME DocInv, NEW version \in Nat, NEW list \in Lists, NEW tree, Parse[list].outcome = "ok", tree = Parse[list].parent,
         hardware'[version] = list, parts' = InsertTree(version, tree)
  PROVE  RowsPlaced(version)'
  <1>1. parts \in Seq(PartRows)
    BY DEF DocInv, DocTypeOK
  <1>2. PICK s : s = Parse[list]
    OBVIOUS
  <1>3. Nested(s, Len(list)) /\ LevelsRead(list, s, Len(list)) /\ tree = s.parent
    BY <1>2, ListRead
  <1>4. DOMAIN tree = 1..Len(tree) /\ Len(tree) \in Nat
    BY <1>3, ReadStateType DEF Nested
  <1>5. PICK p, len : p = parts' /\ len = Len(parts)
    OBVIOUS
  <1>6. len \in Nat
    BY <1>1, <1>5
  <1>7. /\ p \in Seq(PartRows) /\ Len(p) = len + Len(tree)
        /\ \A i \in 1..Len(tree) :
             /\ p[len + i].doc = version /\ p[len + i].row = tree[i][1]
             /\ tree[i][2] = Root => p[len + i].parent = Root
             /\ tree[i][2] # Root => \E j \in 1..(i - 1) :
                  tree[j][1] = tree[i][2] /\ p[len + i].parent = len + j
    <2>1. p = InsertTree(version, tree)
      BY <1>5
    <2>2. /\ p \in Seq(PartRows) /\ Len(p) = Len(parts) + Len(tree)
          /\ \A i \in 1..Len(tree) :
               /\ p[Len(parts) + i].doc = version /\ p[Len(parts) + i].row = tree[i][1]
               /\ tree[i][2] = Root => p[Len(parts) + i].parent = Root
               /\ tree[i][2] # Root => \E j \in 1..(i - 1) :
                    tree[j][1] = tree[i][2] /\ p[Len(parts) + i].parent = Len(parts) + j
      <3>1. Inserted(p, version, tree)
        BY <1>1, <2>1, TreeInserted
      <3> QED BY <3>1 DEF Inserted
    <2> QED BY <1>5, <2>2
  <1>8. ASSUME StartsAtRoot(list), NEW line \in Kept(list)
        PROVE  \E i \in 1..Len(p) :
                 /\ p[i].doc = version /\ p[i].row = line
                 /\ Above(list, line) = Root => p[i].parent = Root
                 /\ Above(list, line) # Root => p[i].parent \in 1..(i - 1) /\ p[p[i].parent].row = Above(list, line)
    <2>1. PICK up : up = Above(list, line)
      OBVIOUS
    <2>2. UpOf(list, line) = up
      BY <2>1 DEF UpOf, Above
    <2>3. line \in KeptUpTo(list, Len(list))
      <3>1. Len(list) \in Nat
        BY ListType
      <3> QED BY <1>8, <3>1 DEF KeptUpTo, Kept
    <2>4. Placing(list, s, Len(list))
      BY <1>2, <1>3, <1>8 DEF LevelsRead
    <2>5. PICK i \in 1..Len(tree) : tree[i] = <<line, up>>
      BY <1>3, <1>4, <2>2, <2>3, <2>4 DEF Placing
    <2>6. tree[i][1] = line /\ tree[i][2] = up
      BY <2>5
    <2>7. len + i \in 1..Len(p)
      BY <1>4, <1>6, <1>7
    <2>8. ASSUME up # Root
          PROVE  p[len + i].parent \in 1..(len + i - 1) /\ p[p[len + i].parent].row = up
      <3>1. PICK j \in 1..(i - 1) : tree[j][1] = up /\ p[len + i].parent = len + j
        BY <1>7, <2>5, <2>6, <2>8
      <3>2. j \in 1..Len(tree) /\ len + j \in 1..(len + i - 1)
        BY <1>4, <1>6
      <3>3. p[len + j].row = up
        BY <1>7, <3>1, <3>2
      <3> QED BY <3>1, <3>2, <3>3
    <2>9. p[len + i].doc = version /\ p[len + i].row = line /\ (up = Root => p[len + i].parent = Root)
      BY <1>7, <2>5, <2>6
    <2>10. PICK k : k = len + i
      OBVIOUS
    <2>11. /\ k \in 1..Len(p) /\ p[k].doc = version /\ p[k].row = line /\ (up = Root => p[k].parent = Root)
           /\ up # Root => p[k].parent \in 1..(k - 1) /\ p[p[k].parent].row = up
      <3>1. up # Root => p[k].parent \in 1..(k - 1) /\ p[p[k].parent].row = up
        <4>1. k - 1 = len + i - 1
          BY <1>4, <1>6, <2>10
        <4> QED BY <2>8, <2>10, <4>1
      <3> QED BY <2>7, <2>9, <2>10, <3>1
    <2> QED BY <2>1, <2>11
  <1> QED BY <1>5, <1>8 DEF RowsPlaced

LEMMA ReplaceKeeps ==
  ASSUME DocInv, NEW w \in Writers, ReplaceHardwareTree(w)
  PROVE  DocInv'
  <1>1. PICK version \in Nat, list \in Lists :
    /\ writing[w].op = "import" /\ writing[w] \in Importing
    /\ version = Len(hardware) + 1 /\ Parse[list].outcome = "ok"
    /\ hardware' \in Seq(Lists \cup {<< >>}) /\ Len(hardware') = version /\ hardware'[version] = list
    /\ \A v \in 1..Len(hardware) : hardware'[v] = hardware[v]
    /\ parts' = InsertTree(version, Parse[list].parent)
    /\ writing' = [writing EXCEPT ![w] = Quiet]
    /\ acked' = acked \cup {[kind |-> "import", doc |-> version, key |-> Root, from |-> writing[w].from, at |-> ticks]}
    /\ UNCHANGED <<scans, documents, devices, ticks>>
    BY ReplaceEffect
  <1>2. /\ DocTypeOK /\ DocumentsAreCounted /\ PartsAreBelow /\ WritesAreCurrent /\ ListsArePlaced
        /\ acked \subseteq Saves /\ ticks \in Nat /\ hardware \in Seq(Lists \cup {<< >>}) /\ parts \in Seq(PartRows)
        /\ devices \in Seq(Devices)
    BY DEF DocInv, DocTypeOK
  <1>0. PICK tree : tree = Parse[list].parent
    OBVIOUS
  <1>3. PICK len, n : len = Len(parts) /\ n = Len(tree)
    OBVIOUS
  <1>4. len \in Nat /\ Len(hardware) \in Nat
    BY <1>2, <1>3
  <1>5. /\ n \in Nat /\ parts' \in Seq(PartRows) /\ Len(parts') = len + n
        /\ \A i \in 1..len : parts'[i] = parts[i]
        /\ \A i \in 1..n : /\ parts'[len + i].doc = version
                           /\ \/ parts'[len + i].parent = Root
                              \/ \E j \in 1..(i - 1) : parts'[len + i].parent = len + j
    <2>1. PICK p : p = parts'
      OBVIOUS
    <2>2. p = InsertTree(version, tree)
      BY <1>0, <1>1, <2>1
    <2>3. /\ Len(tree) \in Nat /\ p \in Seq(PartRows) /\ Len(p) = Len(parts) + Len(tree)
          /\ \A i \in 1..Len(parts) : p[i] = parts[i]
          /\ \A i \in 1..Len(tree) :
               /\ p[Len(parts) + i].doc = version
               /\ tree[i][2] = Root => p[Len(parts) + i].parent = Root
               /\ tree[i][2] # Root => \E j \in 1..(i - 1) :
                    tree[j][1] = tree[i][2] /\ p[Len(parts) + i].parent = Len(parts) + j
      <3>1. Inserted(p, version, tree)
        BY <1>0, <1>1, <1>2, <2>2, TreeInserted
      <3> QED BY <3>1 DEF Inserted
    <2>4. \A i \in 1..Len(tree) : \/ p[Len(parts) + i].parent = Root
                                  \/ \E j \in 1..(i - 1) : p[Len(parts) + i].parent = Len(parts) + j
      BY <2>3
    <2> QED BY <1>3, <2>1, <2>3, <2>4
  <1>6. PICK s : s = [kind |-> "import", doc |-> version, key |-> Root, from |-> writing[w].from, at |-> ticks]
    OBVIOUS
  <1>7. writing[w].from \in Nat /\ writing[w].from \in 1..ticks
    BY <1>1, <1>2 DEF Importing, WritesAreCurrent, Current
  <1>8. /\ s \in Saves /\ s.kind = "import" /\ s.doc = version /\ s.from = writing[w].from /\ s.at = ticks
    BY <1>1, <1>2, <1>6, <1>7 DEF Saves, Root
  <1>9. acked' = acked \cup {s}
    BY <1>1, <1>6
  <1>10. Grown(s)
    <2>1. Len(parts) <= Len(parts') /\ \A i \in 1..Len(parts) : parts'[i] = parts[i]
      BY <1>3, <1>4, <1>5
    <2>2. Len(hardware) <= Len(hardware')
      BY <1>1, <1>4
    <2> QED BY <1>1, <1>2, <1>5, <1>8, <2>1, <2>2 DEF Grown
  <1>11. Stored(s)'
    <2>1. s.from <= s.at /\ s.at <= ticks'
      <3>1. ticks' = ticks /\ writing[w].from <= ticks
        BY <1>1, <1>2, <1>7
      <3> QED BY <1>2, <1>8, <3>1
    <2>2. s.doc \in 1..Len(hardware') /\ ~ (s.doc < Len(hardware'))
      BY <1>1, <1>4, <1>8
    <2> QED BY <1>8, <2>1, <2>2 DEF Stored
  <1>12. SavesAreStored' /\ WritesAreCurrent'
    BY <1>1, <1>8, <1>9, <1>10, <1>11, CommitKeepsSaves, CommitKeepsWrites
  <1>13. DocTypeOK'
    <2>1. writing' \in [Writers -> {Quiet} \cup Requested]
      BY <1>1, <1>2 DEF DocTypeOK
    <2>2. acked' \subseteq Saves
      BY <1>2, <1>8, <1>9
    <2> QED BY <1>1, <1>2, <1>5, <2>1, <2>2 DEF DocTypeOK
  <1>14. DocumentsAreCounted'
    BY <1>1, <1>2 DEF DocumentsAreCounted
  <1>15. PartsAreBelow'
    <2>1. ASSUME NEW k \in 1..Len(parts') PROVE parts'[k].parent < k /\ parts'[k].doc \in 1..Len(hardware')
      <3>1. CASE k \in 1..len
        <4>1. parts'[k] = parts[k] /\ parts[k].parent < k /\ parts[k].doc \in 1..Len(hardware)
          BY <1>2, <1>3, <1>5, <3>1 DEF PartsAreBelow
        <4> QED BY <1>1, <1>4, <4>1
      <3>2. CASE k \notin 1..len
        <4>1. PICK i \in 1..n : k = len + i
          <5>1. k - len \in 1..n /\ k = len + (k - len)
            BY <1>4, <1>5, <3>2
          <5> QED BY <5>1
        <4>2. parts'[k].doc = version
          BY <1>5, <4>1
        <4>3. parts'[k].parent = Root \/ \E j \in 1..(i - 1) : parts'[k].parent = len + j
          BY <1>5, <4>1
        <4>4. parts'[k].parent < k
          BY <1>4, <1>5, <4>1, <4>3 DEF Root
        <4> QED BY <1>1, <1>4, <4>2, <4>4
      <3> QED BY <3>1, <3>2
    <2> QED BY <2>1 DEF PartsAreBelow
  <1>16. ListsArePlaced'
    <2>1. ASSUME NEW v \in 1..Len(hardware') PROVE RowsPlaced(v)'
      <3>1. CASE v = version
        BY <1>0, <1>1, <3>1, ListIsPlaced
      <3>2. CASE v # version
        <4>1. v \in 1..Len(hardware) /\ hardware'[v] = hardware[v]
          BY <1>1, <1>4, <3>2
        <4>2. Len(parts) <= Len(parts') /\ \A i \in 1..Len(parts) : parts'[i] = parts[i]
          BY <1>3, <1>4, <1>5
        <4> QED BY <1>5, <4>1, <4>2, RowsStay
      <3> QED BY <3>1, <3>2
    <2> QED BY <2>1 DEF ListsArePlaced
  <1> QED BY <1>12, <1>13, <1>14, <1>15, <1>16 DEF DocInv

LEMMA DeviceKeeps ==
  ASSUME DocInv, NEW w \in Writers, InsertDevice(w)
  PROVE  DocInv'
  <1>1. /\ DocTypeOK /\ DocumentsAreCounted /\ PartsAreBelow /\ WritesAreCurrent /\ ListsArePlaced
        /\ acked \subseteq Saves /\ ticks \in Nat /\ hardware \in Seq(Lists \cup {<< >>}) /\ parts \in Seq(PartRows)
        /\ devices \in Seq(Devices)
    BY DEF DocInv, DocTypeOK
  <1>2. PICK r : r = writing[w]
    OBVIOUS
  <1>3. /\ r.op = "device" /\ r.version = Len(devices) + 1 /\ devices' = Append(devices, r.device)
        /\ Answer(w, Save(w, "device", r.version, Root)) /\ UNCHANGED <<documents, hardware, parts>>
    BY <1>2 DEF InsertDevice
  <1>4. r \in Capturing /\ r.version \in Nat /\ r.device \in Devices /\ r.from \in Nat /\ r.from \in 1..ticks
    BY <1>1, <1>2, <1>3, RequestType DEF Capturing, WritesAreCurrent, Current
  <1>5. PICK n : n = Len(devices)
    OBVIOUS
  <1>6. n \in Nat /\ devices' \in Seq(Devices) /\ Len(devices') = n + 1
    BY <1>1, <1>3, <1>4, <1>5
  <1>7. PICK s : s = [kind |-> "device", doc |-> r.version, key |-> Root, from |-> r.from, at |-> ticks]
    OBVIOUS
  <1>8. /\ s \in Saves /\ s.kind = "device" /\ s.doc = n + 1 /\ s.from = r.from /\ s.at = ticks
    BY <1>1, <1>3, <1>4, <1>5, <1>7 DEF Saves, Root
  <1>9. /\ writing' = [writing EXCEPT ![w] = Quiet] /\ acked' = acked \cup {s} /\ UNCHANGED <<scans, ticks>>
    BY <1>2, <1>3, <1>7 DEF Answer, Save
  <1>10. Grown(s)
    <2>1. Len(devices) <= Len(devices')
      BY <1>5, <1>6
    <2>2. Len(hardware) \in Nat /\ Len(parts) \in Nat
      BY <1>1
    <2> QED BY <1>1, <1>3, <1>6, <1>8, <2>1, <2>2 DEF Grown
  <1>11. Stored(s)'
    <2>1. s.from <= s.at /\ s.at <= ticks'
      <3>1. ticks' = ticks /\ r.from <= ticks
        BY <1>1, <1>4, <1>9
      <3> QED BY <1>1, <1>8, <3>1
    <2>2. s.doc \in 1..Len(devices') /\ ~ (s.doc < Len(devices'))
      BY <1>6, <1>8
    <2> QED BY <1>8, <2>1, <2>2 DEF Stored
  <1>12. SavesAreStored' /\ WritesAreCurrent'
    <2>1. ticks' = ticks
      BY <1>9
    <2> QED BY <1>2, <1>3, <1>8, <1>9, <1>10, <1>11, <2>1, CommitKeepsSaves, CommitKeepsWrites
  <1>13. DocTypeOK'
    <2>1. writing' \in [Writers -> {Quiet} \cup Requested]
      BY <1>1, <1>9 DEF DocTypeOK
    <2>2. acked' \subseteq Saves
      BY <1>1, <1>8, <1>9
    <2> QED BY <1>1, <1>3, <1>6, <1>9, <2>1, <2>2 DEF DocTypeOK
  <1>14. DocumentsAreCounted'
    BY <1>1, <1>3, <1>9 DEF DocumentsAreCounted
  <1>15. PartsAreBelow' /\ ListsArePlaced'
    BY <1>1, <1>3 DEF PartsAreBelow, ListsArePlaced, RowsPlaced
  <1> QED BY <1>12, <1>13, <1>14, <1>15 DEF DocInv

\* A document with its answers.
Answered(d, doc, from) == IF d.id = doc THEN [d EXCEPT !.answers = from] ELSE d

SameDocument(e, d) == e.id = d.id /\ e.type = d.type /\ e.scan = d.scan /\ e.version = d.version

LEMMA AnsweredType ==
  ASSUME NEW d \in DocumentRows, NEW doc \in Nat, NEW from \in Nat
  PROVE  /\ Answered(d, doc, from) \in DocumentRows /\ SameDocument(Answered(d, doc, from), d)
         /\ d.id = doc => Answered(d, doc, from).answers = from
  <1>0. PICK e : e = Answered(d, doc, from)
    OBVIOUS
  <1>1. CASE d.id = doc
    <2>1. e = [d EXCEPT !.answers = from]
      BY <1>0, <1>1 DEF Answered
    <2>2. e \in DocumentRows /\ SameDocument(e, d) /\ e.answers = from
      BY <2>1 DEF DocumentRows, SameDocument
    <2> QED BY <1>0, <2>2
  <1>2. CASE d.id # doc
    <2>1. e = d
      BY <1>0, <1>2 DEF Answered
    <2> QED BY <1>0, <1>2, <2>1 DEF SameDocument
  <1> QED BY <1>1, <1>2

\* The update touches no identity: as many documents as before, under the same ids.
LEMMA AnswersEffect ==
  ASSUME DocInv, NEW w \in Writers, WriteAnswers(w)
  PROVE  \E doc \in 1..Cardinality(documents) :
    /\ writing[w].op = "answer" /\ writing[w] \in Answering
    /\ documents' \subseteq DocumentRows /\ IsFiniteSet(documents')
    /\ Cardinality(documents') = Cardinality(documents)
    /\ \A e \in documents' : \E d \in documents :
         /\ SameDocument(e, d)
         /\ e = Answered(d, doc, writing[w].from)
         /\ e.id = doc => e.answers = writing[w].from
    /\ \A d \in documents : \E e \in documents' :
         SameDocument(e, d)
    /\ writing' = [writing EXCEPT ![w] = Quiet]
    /\ acked' = acked \cup {[kind |-> "answer", doc |-> doc, key |-> writing[w].from, from |-> writing[w].from, at |-> ticks]}
    /\ UNCHANGED <<scans, hardware, parts, devices, ticks>>
  <1>1. DocTypeOK /\ DocumentsAreCounted /\ WritesAreCurrent /\ documents \subseteq DocumentRows /\ IsFiniteSet(documents)
    BY DEF DocInv, DocTypeOK, DocumentsAreCounted
  <1>2. PICK r : r = writing[w]
    OBVIOUS
  <1>3. /\ r.op = "answer"
        /\ documents' = {IF d.id = r.doc THEN [d EXCEPT !.answers = r.from] ELSE d : d \in documents}
        /\ Answer(w, Save(w, "answer", r.doc, r.from)) /\ UNCHANGED <<hardware, parts, devices>>
    BY <1>2 DEF WriteAnswers
  <1>4. r \in Answering /\ r.doc \in Nat /\ r.from \in Nat /\ r.doc \in 1..Cardinality(documents)
    BY <1>1, <1>2, <1>3, RequestType DEF Answering, WritesAreCurrent, Current
  <1> DEFINE to(d) == Answered(d, r.doc, r.from)
             f == [d \in documents |-> to(d)]
             g == [e \in documents' |-> CHOOSE d \in documents : to(d) = e]
  <1>5. documents' = {to(d) : d \in documents}
    BY <1>3 DEF Answered
  <1>6. \A d \in documents : /\ to(d) \in DocumentRows /\ SameDocument(to(d), d)
                             /\ d.id = r.doc => to(d).answers = r.from
    BY <1>1, <1>4, AnsweredType
  <1> HIDE DEF to
  <1>7. f \in [documents -> documents'] /\ g \in [documents' -> documents]
    BY <1>5
  <1>8. f \in Surjection(documents, documents')
    BY <1>5, <1>7 DEF Surjection
  <1>9. IsFiniteSet(documents') /\ Cardinality(documents') <= Cardinality(documents)
    BY <1>1, <1>8, FS_Surjection
  <1>10. g \in Surjection(documents', documents)
    <2>1. ASSUME NEW d \in documents PROVE \E e \in documents' : g[e] = d
      <3>1. to(d) \in documents'
        BY <1>5
      <3>2. g[to(d)] \in documents /\ to(g[to(d)]) = to(d)
        BY <3>1
      <3>3. g[to(d)].id = d.id
        BY <1>6, <3>2 DEF SameDocument
      <3>4. g[to(d)] = d
        BY <1>1, <3>2, <3>3 DEF DocumentsAreCounted
      <3> QED BY <3>1, <3>4
    <2> QED BY <1>7, <2>1 DEF Surjection
  <1>11. Cardinality(documents) <= Cardinality(documents')
    BY <1>9, <1>10, FS_Surjection
  <1>12. Cardinality(documents') = Cardinality(documents)
    BY <1>1, <1>9, <1>11, FS_CardinalityType
  <1>13. \A e \in documents' : \E d \in documents : e = to(d)
    BY <1>5
  <1>14. /\ writing' = [writing EXCEPT ![w] = Quiet]
         /\ acked' = acked \cup {[kind |-> "answer", doc |-> r.doc, key |-> r.from, from |-> r.from, at |-> ticks]}
         /\ UNCHANGED <<scans, ticks>>
    BY <1>2, <1>3 DEF Answer, Save
  <1>15. documents' \subseteq DocumentRows
    BY <1>6, <1>13
  <1>16. \A e \in documents' : \E d \in documents :
           /\ SameDocument(e, d)
           /\ e = Answered(d, r.doc, r.from)
           /\ e.id = r.doc => e.answers = r.from
    BY <1>6, <1>13 DEF to, SameDocument
  <1>17. \A d \in documents : \E e \in documents' :
           SameDocument(e, d)
    BY <1>5, <1>6
  <1> HIDE DEF f, g
  <1>18. PICK doc, from : doc = r.doc /\ from = r.from
    OBVIOUS
  <1>19. /\ doc \in 1..Cardinality(documents) /\ from = writing[w].from
         /\ \A e \in documents' : \E d \in documents :
              /\ SameDocument(e, d)
              /\ e = Answered(d, doc, from)
              /\ e.id = doc => e.answers = from
         /\ acked' = acked \cup {[kind |-> "answer", doc |-> doc, key |-> from, from |-> from, at |-> ticks]}
         /\ writing' = [writing EXCEPT ![w] = Quiet]
    BY <1>2, <1>4, <1>14, <1>16, <1>18
  <1>20. /\ writing[w].op = "answer" /\ writing[w] \in Answering
         /\ UNCHANGED <<scans, hardware, parts, devices, ticks>>
    BY <1>2, <1>3, <1>4, <1>14
  <1> HIDE DEF Answered
  <1> QED BY <1>9, <1>12, <1>15, <1>17, <1>19, <1>20

LEMMA AnswersKeep ==
  ASSUME DocInv, NEW w \in Writers, WriteAnswers(w)
  PROVE  DocInv'
  <1>1. PICK doc \in 1..Cardinality(documents) :
    /\ writing[w].op = "answer" /\ writing[w] \in Answering
    /\ documents' \subseteq DocumentRows /\ IsFiniteSet(documents')
    /\ Cardinality(documents') = Cardinality(documents)
    /\ \A e \in documents' : \E d \in documents :
         /\ SameDocument(e, d)
         /\ e = Answered(d, doc, writing[w].from)
         /\ e.id = doc => e.answers = writing[w].from
    /\ \A d \in documents : \E e \in documents' :
         SameDocument(e, d)
    /\ writing' = [writing EXCEPT ![w] = Quiet]
    /\ acked' = acked \cup {[kind |-> "answer", doc |-> doc, key |-> writing[w].from, from |-> writing[w].from, at |-> ticks]}
    /\ UNCHANGED <<scans, hardware, parts, devices, ticks>>
    BY AnswersEffect
  <1>2. /\ DocTypeOK /\ DocumentsAreCounted /\ PartsAreBelow /\ WritesAreCurrent /\ ListsArePlaced
        /\ acked \subseteq Saves /\ ticks \in Nat /\ hardware \in Seq(Lists \cup {<< >>}) /\ parts \in Seq(PartRows)
        /\ devices \in Seq(Devices) /\ Cardinality(documents) \in Nat
    BY FS_CardinalityType DEF DocInv, DocTypeOK, DocumentsAreCounted
  <1>3. PICK from : from = writing[w].from
    OBVIOUS
  <1>4. from \in Nat /\ from \in 1..ticks /\ doc \in Nat
    BY <1>1, <1>2, <1>3 DEF Answering, WritesAreCurrent, Current
  <1>5. PICK s : s = [kind |-> "answer", doc |-> doc, key |-> from, from |-> from, at |-> ticks]
    OBVIOUS
  <1>6. s \in Saves /\ s.kind = "answer" /\ s.doc = doc /\ s.key = from /\ s.from = from /\ s.at = ticks
    BY <1>2, <1>4, <1>5 DEF Saves
  <1>7. /\ writing' = [writing EXCEPT ![w] = Quiet] /\ acked' = acked \cup {s} /\ ticks' = ticks
        /\ writing[w].op # "none"
    BY <1>1, <1>3, <1>5
  <1>8. Grown(s)
    <2>1. Len(hardware) \in Nat /\ Len(parts) \in Nat /\ Len(devices) \in Nat
      BY <1>2
    <2> QED BY <1>1, <1>2, <1>6, <2>1 DEF Grown
  <1>9. Stored(s)'
    <2>1. s.from <= s.at /\ s.at <= ticks'
      BY <1>2, <1>4, <1>6, <1>7
    <2>2. s.doc \in 1..Cardinality(documents')
      BY <1>1, <1>6
    <2>3. \A d \in documents' : d.id = s.doc => d.answers = s.key
      BY <1>1, <1>3, <1>6
    <2> QED BY <1>6, <2>1, <2>2, <2>3 DEF Stored
  <1>10. SavesAreStored' /\ WritesAreCurrent'
    BY <1>3, <1>6, <1>7, <1>8, <1>9, CommitKeepsSaves, CommitKeepsWrites
  <1>11. DocTypeOK'
    <2>1. writing' \in [Writers -> {Quiet} \cup Requested]
      BY <1>2, <1>7 DEF DocTypeOK
    <2>2. acked' \subseteq Saves
      BY <1>2, <1>6, <1>7
    <2> QED BY <1>1, <1>2, <2>1, <2>2 DEF DocTypeOK
  <1>12. DocumentsAreCounted'
    <2>1. \A e \in documents' : /\ e.id \in 1..Cardinality(documents') /\ e.version \in 1..Cardinality(documents')
                                /\ e.scan \in 1..scans'
      BY <1>1, <1>2 DEF DocumentsAreCounted, SameDocument
    <2>2. ASSUME NEW e \in documents', NEW f \in documents', e.id = f.id PROVE e = f
      <3>1. PICK d \in documents : e.id = d.id /\ e = Answered(d, doc, writing[w].from)
        BY <1>1 DEF SameDocument
      <3>2. PICK c \in documents : f.id = c.id /\ f = Answered(c, doc, writing[w].from)
        BY <1>1 DEF SameDocument
      <3>3. d = c
        BY <1>2, <2>2, <3>1, <3>2 DEF DocumentsAreCounted
      <3> QED BY <3>1, <3>2, <3>3
    <2> QED BY <1>1, <2>1, <2>2 DEF DocumentsAreCounted
  <1>13. PartsAreBelow' /\ ListsArePlaced'
    BY <1>1, <1>2 DEF PartsAreBelow, ListsArePlaced, RowsPlaced
  <1> QED BY <1>10, <1>11, <1>12, <1>13 DEF DocInv

(***************************************************************************)
(* What the pages show                                                     *)
(***************************************************************************)
\* Of documents whose scans and versions are bounded, one supersedes all.
LEMMA NewestExists ==
  ASSUME NEW mine \in SUBSET DocumentRows, mine # {}, NEW m \in Nat, NEW n \in Nat,
         \A d \in mine : d.scan <= m /\ d.version <= n
  PROVE  \E d \in mine : \A e \in mine : Supersedes(d, e)
  <1>1. \A d \in mine : d.scan \in Nat /\ d.version \in Nat
    BY DEF DocumentRows
  <1> DEFINE S == {m - d.scan : d \in mine}
  <1>2. S # {} /\ S \subseteq Nat
    BY <1>1
  <1>3. PICK s \in S : \A k \in S : s <= k
    <2> HIDE DEF S
    <2> QED BY <1>2, Least
  <1> DEFINE last == {d \in mine : m - d.scan = s}
             T == {n - d.version : d \in last}
  <1>4. T # {} /\ T \subseteq Nat
    BY <1>1, <1>3
  <1>5. PICK t \in T : \A k \in T : t <= k
    <2> HIDE DEF T
    <2> QED BY <1>4, Least
  <1>6. PICK d \in last : t = n - d.version
    BY <1>5
  <1>7. ASSUME NEW e \in mine PROVE Supersedes(d, e)
    <2>1. s <= m - e.scan /\ m - d.scan = s
      BY <1>3, <1>6
    <2>2. d \in mine /\ d.scan \in Nat /\ e.scan \in Nat /\ d.version \in Nat /\ e.version \in Nat
      BY <1>1, <1>6
    <2>3. d.scan >= e.scan
      BY <2>1, <2>2
    <2>4. CASE d.scan = e.scan
      <3>1. n - e.version \in T
        BY <2>1, <2>4
      <3>2. n - d.version <= n - e.version
        BY <1>5, <1>6, <3>1
      <3> QED BY <2>2, <2>4, <3>2 DEF Supersedes
    <2>5. CASE d.scan # e.scan
      BY <2>2, <2>3, <2>5 DEF Supersedes
    <2> QED BY <2>4, <2>5
  <1> QED BY <1>6, <1>7

Mine(type) == {d \in documents : d.type = type}

LEMMA Resolved ==
  ASSUME DocTypeOK, DocumentsAreCounted, NEW type \in Types, NEW d, d = resolveCurrentBOMDocument(type)
  PROVE  IF Mine(type) = {} THEN d = NoDocument ELSE d \in Mine(type) /\ \A e \in Mine(type) : Supersedes(d, e)
  <1>1. scans \in Nat /\ Cardinality(documents) \in Nat /\ documents \subseteq DocumentRows
    BY FS_CardinalityType DEF DocTypeOK, DocumentsAreCounted
  <1>2. d = IF Mine(type) = {} THEN NoDocument ELSE CHOOSE c \in Mine(type) : \A e \in Mine(type) : Supersedes(c, e)
    BY DEF resolveCurrentBOMDocument, Mine
  <1>3. ASSUME Mine(type) # {} PROVE \E c \in Mine(type) : \A e \in Mine(type) : Supersedes(c, e)
    <2>1. Mine(type) \in SUBSET DocumentRows
      BY <1>1 DEF Mine
    <2>2. \A c \in Mine(type) : c.scan <= scans /\ c.version <= Cardinality(documents)
      BY DEF Mine, DocumentsAreCounted
    <2> QED BY <1>1, <1>3, <2>1, <2>2, NewestExists
  <1> QED BY <1>2, <1>3

\* The requests a page can make.
LEMMA RequestsKeep ==
  ASSUME DocInv, NEW w \in Writers,
         \/ \E shown \in {Root} \cup DOMAIN parts, child \in BOOLEAN :
              SaveHardwareComponent(w, Root, shown, child) \/ SaveHardwareComponent(w, shown, Root, child)
         \/ \E list \in Lists : ImportHBOM(w, list)
         \/ \E values \in SUBSET {"model"} : SaveQuantumDevice(w, values)
         \/ UpdateAIModelUserFields(w)
  PROVE  DocInv'
  <1>1. /\ DocTypeOK /\ DocumentsAreCounted /\ ticks \in Nat /\ hardware \in Seq(Lists \cup {<< >>})
        /\ parts \in Seq(PartRows) /\ devices \in Seq(Devices)
    BY DEF DocInv, DocTypeOK
  <1>2. Len(hardware) \in Nat /\ Len(parts) \in Nat /\ Len(devices) \in Nat /\ DOMAIN parts = 1..Len(parts)
    BY <1>1
  <1>3. ASSUME NEW id \in {Root} \cup DOMAIN parts, NEW parent \in {Root} \cup DOMAIN parts, NEW child \in BOOLEAN,
               SaveHardwareComponent(w, id, parent, child)
        PROVE  DocInv'
    <2>1. PICK r : r = [op |-> "save", from |-> ticks + 1, doc |-> resolveHBOMDocument,
                        id |-> id, parent |-> parent, child |-> child]
      OBVIOUS
    <2>2. id \in Nat /\ parent \in Nat /\ parent <= Len(parts)
      BY <1>2 DEF Root
    <2>3. r \in Saving /\ r.op = "save" /\ r.from = ticks + 1 /\ r.doc = Len(hardware) /\ r.parent <= Len(parts)
      BY <1>1, <1>2, <2>1, <2>2 DEF Saving, resolveHBOMDocument
    <2>4. Begin(w, r) /\ r \in Requested
      BY <1>3, <2>1, <2>3 DEF SaveHardwareComponent, Requested
    <2> QED BY <2>3, <2>4, BeginKeeps
  <1>4. ASSUME NEW list \in Lists, ImportHBOM(w, list) PROVE DocInv'
    <2>1. PICK r : r = [op |-> "import", from |-> ticks + 1, version |-> nextHBOMVersion, list |-> list]
      OBVIOUS
    <2>2. r \in Importing /\ r.op = "import" /\ r.from = ticks + 1 /\ Parse[r.list].outcome = "ok"
      BY <1>1, <1>2, <1>4, <2>1 DEF Importing, nextHBOMVersion, ImportHBOM
    <2>3. Begin(w, r) /\ r \in Requested
      BY <1>4, <2>1, <2>2 DEF ImportHBOM, Requested
    <2> QED BY <2>2, <2>3, BeginKeeps
  <1>5. ASSUME NEW values \in SUBSET {"model"}, SaveQuantumDevice(w, values) PROVE DocInv'
    <2>1. PICK device : device = NormalizeDevice(values, resolveCurrentBOMDocument("CBOM") # NoDocument)
      OBVIOUS
    <2>2. device \in Devices
      <3>1. device = [values |-> values, status |-> values \cup
                       (IF resolveCurrentBOMDocument("CBOM") # NoDocument THEN {"crypto"} ELSE {})]
        BY <2>1 DEF NormalizeDevice
      <3>2. PICK status : status = values \cup
                       (IF resolveCurrentBOMDocument("CBOM") # NoDocument THEN {"crypto"} ELSE {})
        OBVIOUS
      <3>3. status \in SUBSET {"model", "crypto"}
        BY <3>2
      <3>4. device = [values |-> values, status |-> status]
        BY <3>1, <3>2
      <3> QED BY <3>3, <3>4 DEF Devices
    <2>3. PICK r : r = [op |-> "device", from |-> ticks + 1, version |-> nextQBOMVersion, device |-> device]
      OBVIOUS
    <2>4. r \in Capturing /\ r.op = "device" /\ r.from = ticks + 1
      BY <1>1, <1>2, <2>2, <2>3 DEF Capturing, nextQBOMVersion
    <2>5. Begin(w, r) /\ r \in Requested
      BY <1>5, <2>1, <2>3, <2>4 DEF SaveQuantumDevice, Requested
    <2> QED BY <2>4, <2>5, BeginKeeps
  <1>6. ASSUME UpdateAIModelUserFields(w) PROVE DocInv'
    <2>1. PICK d : d = resolveCurrentBOMDocument("AIBOM")
      OBVIOUS
    <2>2. d \in documents
      <3>1. "AIBOM" \in Types /\ d # NoDocument
        BY <1>6, <2>1 DEF Types, UpdateAIModelUserFields
      <3> QED BY <1>1, <2>1, <3>1, Resolved DEF Mine
    <2>3. d.id \in 1..Cardinality(documents) /\ d.id \in Nat
      BY <1>1, <2>2 DEF DocumentsAreCounted, DocTypeOK, DocumentRows
    <2>4. PICK r : r = [op |-> "answer", from |-> ticks + 1, doc |-> d.id]
      OBVIOUS
    <2>5. r \in Answering /\ r.op = "answer" /\ r.from = ticks + 1 /\ r.doc \in 1..Cardinality(documents)
      BY <1>1, <2>3, <2>4 DEF Answering
    <2>6. Begin(w, r) /\ r \in Requested
      BY <1>6, <2>1, <2>4, <2>5 DEF UpdateAIModelUserFields, Requested
    <2> QED BY <2>5, <2>6, BeginKeeps
  <1> QED BY <1>3, <1>4, <1>5, <1>6 DEF Root

LEMMA DocStep ==
  ASSUME DocInv, [DocNext]_docVars
  PROVE  DocInv'
  <1>1. CASE StartScan
    BY <1>1, ScanKeeps
  <1>2. CASE \E sc \in 1..scans, type \in Types : NormalizeScan(sc, type)
    BY <1>2, NormalizeKeeps
  <1>3. ASSUME NEW w \in Writers,
               \/ \E shown \in {Root} \cup DOMAIN parts, child \in BOOLEAN :
                    SaveHardwareComponent(w, Root, shown, child) \/ SaveHardwareComponent(w, shown, Root, child)
               \/ \E list \in Lists : ImportHBOM(w, list)
               \/ \E values \in SUBSET {"model"} : SaveQuantumDevice(w, values)
               \/ UpdateAIModelUserFields(w)
        PROVE  DocInv'
    BY <1>3, RequestsKeep
  <1>4. ASSUME NEW w \in Writers,
               UpsertNode(w) \/ ReplaceHardwareTree(w) \/ InsertDevice(w) \/ WriteAnswers(w) \/ RollBack(w)
        PROVE  DocInv'
    BY <1>4, UpsertKeeps, ReplaceKeeps, DeviceKeeps, AnswersKeep, RollBackKeeps
  <1>5. CASE UNCHANGED docVars
    BY <1>5 DEF docVars, DocInv, DocTypeOK, DocumentsAreCounted, PartsAreBelow, WritesAreCurrent, Current,
                SavesAreStored, Stored, ListsArePlaced, RowsPlaced, ImportedSince, CommittedSince
  <1> QED BY <1>1, <1>2, <1>3, <1>4, <1>5 DEF DocNext

LEMMA DocHolds == DocSpec => []DocInv
  <1>1. DocInit => DocInv
    BY DocStart
  <1>2. DocInv /\ [DocNext]_docVars => DocInv'
    BY DocStep
  <1> QED BY <1>1, <1>2, PTL DEF DocSpec

\* A save that was answered with success is what the page shows, unless a write of the
\* same kind was committed after the save had begun (hardware, quantum device, AI model).
LEMMA SavedShown == DocSpec => []SavedIsShown
  <1>1. DocInv => SavedIsShown
    <2> SUFFICES ASSUME DocInv, NEW s \in acked PROVE Shows(s)
      BY DEF SavedIsShown
    <2>1. /\ DocTypeOK /\ DocumentsAreCounted /\ PartsAreBelow /\ Stored(s) /\ acked \subseteq Saves
          /\ hardware \in Seq(Lists \cup {<< >>}) /\ devices \in Seq(Devices) /\ parts \in Seq(PartRows)
      BY DEF DocInv, DocTypeOK, SavesAreStored
    <2>2. /\ s.doc \in Nat /\ s.from \in Nat /\ s.kind \in {"part", "import", "device", "answer"}
          /\ Len(hardware) \in Nat /\ Len(devices) \in Nat /\ DOMAIN parts = 1..Len(parts)
      BY <2>1, SaveType
    <2>3. CASE s.kind = "part"
      <3>1. /\ s.key \in 1..Len(parts) /\ parts[s.key].doc = s.doc
            /\ s.doc < Len(hardware) => ImportedSince(s.from)
        BY <2>1, <2>3 DEF Stored
      <3>2. s.doc \in 1..Len(hardware)
        BY <2>1, <3>1 DEF PartsAreBelow
      <3>3. CASE s.doc = Len(hardware)
        <4>1. s.key \in Nodes(resolveHBOMDocument)
          BY <2>2, <3>1, <3>3 DEF Nodes, resolveHBOMDocument
        <4>2. DOMAIN GetHardwareTree = Nodes(resolveHBOMDocument)
          BY DEF GetHardwareTree, buildHardwareTree
        <4> QED BY <2>3, <4>1, <4>2 DEF Shows
      <3>4. CASE s.doc < Len(hardware)
        <4>1. CommittedSince(s, {"import"})
          BY <2>3, <3>1, <3>4 DEF ImportedSince, CommittedSince
        <4> QED BY <2>3, <4>1 DEF Shows
      <3> QED BY <2>2, <3>2, <3>3, <3>4
    <2>4. CASE s.kind = "import"
      <3>1. s.doc \in 1..Len(hardware) /\ (s.doc < Len(hardware) => CommittedSince(s, {"import"}))
        BY <2>1, <2>4 DEF Stored
      <3>2. resolveHBOMDocument = s.doc \/ CommittedSince(s, {"import"})
        BY <2>2, <3>1 DEF resolveHBOMDocument
      <3> QED BY <2>4, <3>2 DEF Shows
    <2>5. CASE s.kind = "device"
      <3>1. s.doc \in 1..Len(devices) /\ (s.doc < Len(devices) => CommittedSince(s, {"device"}))
        BY <2>1, <2>5 DEF Stored
      <3>2. GetQuantumDevice = devices[Len(devices)]
        <4>1. Len(devices) # 0
          BY <2>2, <3>1
        <4>2. devices # << >>
          BY <4>1
        <4> QED BY <4>2 DEF GetQuantumDevice
      <3>3. s.doc = Len(devices) \/ s.doc < Len(devices)
        BY <2>2, <3>1
      <3>4. GetQuantumDevice = devices[s.doc] \/ CommittedSince(s, {"device"})
        BY <3>1, <3>2, <3>3
      <3> QED BY <2>5, <3>4 DEF Shows
    <2>6. CASE s.kind = "answer"
      <3>1. /\ s.doc \in 1..Cardinality(documents)
            /\ \A d \in documents : d.id = s.doc => d.answers = s.key \/ CommittedSince(s, {"answer"})
        BY <2>1, <2>6 DEF Stored
      <3>2. PICK d : d = resolveCurrentBOMDocument("AIBOM")
        OBVIOUS
      <3>3. "AIBOM" \in Types
        BY DEF Types
      <3>4. d = NoDocument \/ d \in documents
        BY <2>1, <3>2, <3>3, Resolved DEF Mine
      <3>5. d = NoDocument => d.id # s.doc
        BY <3>1 DEF NoDocument
      <3>6. d.answers = s.key \/ d.id # s.doc \/ CommittedSince(s, {"answer"})
        BY <3>1, <3>4, <3>5
      <3> QED BY <2>6, <3>2, <3>6 DEF Shows
    <2> QED BY <2>2, <2>3, <2>4, <2>5, <2>6
  <1> QED BY <1>1, DocHolds, PTL

LEMMA ResolvedNext ==
  ASSUME DocTypeOK', DocumentsAreCounted', NEW type \in Types, NEW d, d = resolveCurrentBOMDocument(type)'
  PROVE  IF Mine(type)' = {} THEN d = NoDocument ELSE d \in Mine(type)' /\ \A e \in Mine(type)' : Supersedes(d, e)
  <1>1. scans' \in Nat /\ Cardinality(documents') \in Nat /\ documents' \subseteq DocumentRows
    BY FS_CardinalityType DEF DocTypeOK, DocumentsAreCounted
  <1>2. PICK mine : mine = Mine(type)'
    OBVIOUS
  <1>3. mine = {c \in documents' : c.type = type}
    BY <1>2 DEF Mine
  <1>4. d = IF mine = {} THEN NoDocument ELSE CHOOSE c \in mine : \A e \in mine : Supersedes(c, e)
    BY <1>3 DEF resolveCurrentBOMDocument
  <1>5. ASSUME mine # {} PROVE \E c \in mine : \A e \in mine : Supersedes(c, e)
    <2>1. mine \in SUBSET DocumentRows
      BY <1>1, <1>3
    <2>2. \A c \in mine : c.scan <= scans' /\ c.version <= Cardinality(documents')
      BY <1>3 DEF DocumentsAreCounted
    <2> QED BY <1>1, <1>5, <2>1, <2>2, NewestExists
  <1> QED BY <1>2, <1>4, <1>5

\* No step loses a document, or changes what it is of.
LEMMA DocumentsStay ==
  ASSUME DocInv, [DocNext]_docVars
  PROVE  \A c \in documents : \E b \in documents' : SameDocument(b, c)
  <1>1. documents \subseteq documents' => \A c \in documents : \E b \in documents' : SameDocument(b, c)
    BY DEF SameDocument
  <1>2. CASE StartScan
    BY <1>1, <1>2 DEF StartScan
  <1>3. CASE \E sc \in 1..scans, type \in Types : NormalizeScan(sc, type)
    BY <1>1, <1>3 DEF NormalizeScan
  <1>4. ASSUME NEW w \in Writers,
               \/ \E shown \in {Root} \cup DOMAIN parts, child \in BOOLEAN :
                    SaveHardwareComponent(w, Root, shown, child) \/ SaveHardwareComponent(w, shown, Root, child)
               \/ \E list \in Lists : ImportHBOM(w, list)
               \/ \E values \in SUBSET {"model"} : SaveQuantumDevice(w, values)
               \/ UpdateAIModelUserFields(w)
        PROVE  documents' = documents
    BY <1>4 DEF SaveHardwareComponent, ImportHBOM, SaveQuantumDevice, UpdateAIModelUserFields, Begin
  <1>5. ASSUME NEW w \in Writers, UpsertNode(w) \/ ReplaceHardwareTree(w) \/ InsertDevice(w) \/ RollBack(w)
        PROVE  documents' = documents
    BY <1>5 DEF UpsertNode, ReplaceHardwareTree, InsertDevice, RollBack
  <1>6. ASSUME NEW w \in Writers, WriteAnswers(w)
        PROVE  \A c \in documents : \E b \in documents' : SameDocument(b, c)
    BY <1>6, AnswersEffect
  <1>7. CASE UNCHANGED docVars
    BY <1>1, <1>7 DEF docVars
  <1> QED BY <1>1, <1>2, <1>3, <1>4, <1>5, <1>6, <1>7 DEF DocNext

\* Which scan's document is shown never goes back to an older one (normalizer consumer,
\* resolveCurrentBOMDocument).
THEOREM PagesStay == DocSpec => PageNeverGoesBack
  <1> DEFINE shown(t) == resolveCurrentBOMDocument(t)
             Forward(t) == /\ shown(t).scan <= shown(t)'.scan
                           /\ shown(t).scan = shown(t)'.scan => shown(t).version <= shown(t)'.version
  <1>1. ASSUME DocInv, DocInv', [DocNext]_docVars, NEW type \in Types
        PROVE  Forward(type)
    <2>1. /\ DocTypeOK /\ DocumentsAreCounted /\ DocTypeOK' /\ DocumentsAreCounted'
          /\ documents \subseteq DocumentRows /\ documents' \subseteq DocumentRows
      BY <1>1 DEF DocInv, DocTypeOK
    <2>2. PICK d : d = resolveCurrentBOMDocument(type)
      OBVIOUS
    <2>3. PICK e : e = resolveCurrentBOMDocument(type)'
      OBVIOUS
    <2>4. IF Mine(type) = {} THEN d = NoDocument ELSE d \in Mine(type) /\ \A c \in Mine(type) : Supersedes(d, c)
      BY <2>1, <2>2, Resolved
    <2>5. IF Mine(type)' = {} THEN e = NoDocument ELSE e \in Mine(type)' /\ \A c \in Mine(type)' : Supersedes(e, c)
      BY <2>1, <2>3, ResolvedNext
    <2>6. \A c \in documents : \E b \in documents' : SameDocument(b, c)
      BY <1>1, DocumentsStay
    <2>7. d.scan \in Nat /\ d.version \in Nat /\ e.scan \in Nat /\ e.version \in Nat
      BY <2>1, <2>4, <2>5 DEF Mine, DocumentRows, NoDocument
    <2>8. d.scan <= e.scan /\ (d.scan = e.scan => d.version <= e.version)
      <3>1. CASE Mine(type) = {}
        <4>1. d.scan = 0 /\ d.version = 0
          BY <2>4, <3>1 DEF NoDocument
        <4> QED BY <2>7, <4>1
      <3>2. CASE Mine(type) # {}
        <4>1. d \in documents /\ d.type = type
          BY <2>4, <3>2 DEF Mine
        <4>2. PICK b \in documents' : SameDocument(b, d)
          BY <2>6, <4>1
        <4>3. b \in Mine(type)' /\ b.scan = d.scan /\ b.version = d.version
          BY <4>1, <4>2 DEF Mine, SameDocument
        <4>4. Supersedes(e, b)
          BY <2>5, <4>3
        <4> QED BY <2>7, <4>3, <4>4 DEF Supersedes
      <3> QED BY <3>1, <3>2
    <2> QED BY <2>2, <2>3, <2>8
  <1> HIDE DEF shown
  <1>2. DocInv /\ DocInv' /\ [DocNext]_docVars => [\A t \in Types : Forward(t)]_docVars
    BY <1>1
  <1>3. DocSpec => [][\A t \in Types : Forward(t)]_docVars
    BY <1>2, DocHolds, PTL DEF DocSpec
  <1> QED BY <1>3 DEF PageNeverGoesBack, shown

\* Climbing a tree whose parents are before their children ends at a root: every step
\* leaves fewer nodes below, and there are no more steps than nodes.
LEMMA EveryNodeIsReached ==
  ASSUME NEW tree, NEW D, D = DOMAIN tree, D \subseteq Nat, IsFiniteSet(D), Root \notin D,
         \A i \in D : tree[i] \in D \cup {Root} /\ tree[i] < i
  PROVE  Reached(tree) = D
  <1>1. PICK size : size = Cardinality(D)
    OBVIOUS
  <1>2. size \in Nat
    BY <1>1, FS_CardinalityType
  <1> DEFINE Up(k) == IF k \in D THEN tree[k] ELSE k
             Climbs(g, i, k) == g = [n \in 0..k |-> IF n = 0 THEN i ELSE Up(g[n - 1])]
             h(i) == CHOOSE f : f = [n \in 0..size |-> IF n = 0 THEN i ELSE Up(f[n - 1])]
  <1>3. ASSUME NEW i \in D PROVE \E f : Climbs(f, i, size)
    <2> DEFINE Bad == {k \in 0..size : ~ \E g : Climbs(g, i, k)}
    <2>1. ASSUME Bad # {} PROVE FALSE
      <3>1. PICK b \in Bad : \A k \in Bad : b <= k
        <4>1. Bad \subseteq Nat
          BY <1>2
        <4> HIDE DEF Bad
        <4> QED BY <2>1, <4>1, Least
      <3> HIDE DEF Up
      <3>2. CASE b = 0
        <4>1. Climbs([n \in 0..0 |-> i], i, 0)
          OBVIOUS
        <4> QED BY <3>1, <3>2, <4>1
      <3>3. CASE b # 0
        <4>0. b \in 0..size
          BY <3>1
        <4>1. b - 1 \in 0..size /\ b - 1 \notin Bad /\ b \in Nat
          <5>1. b - 1 \in 0..size /\ b \in Nat /\ ~ (b <= b - 1)
            BY <1>2, <3>3, <4>0
          <5> HIDE DEF Bad
          <5> QED BY <3>1, <5>1
        <4>2. PICK g : Climbs(g, i, b - 1)
          BY <4>1
        <4> DEFINE e == [n \in 0..b |-> IF n = b THEN Up(g[b - 1]) ELSE g[n]]
        <4>3. \A n \in 0..b : e[n] = IF n = b THEN Up(g[b - 1]) ELSE g[n]
          OBVIOUS
        <4>4. \A n \in 0..(b - 1) : g[n] = IF n = 0 THEN i ELSE Up(g[n - 1])
          BY <4>2
        <4>5. \A n \in 0..b : e[n] = IF n = 0 THEN i ELSE Up(e[n - 1])
          <5> TAKE n \in 0..b
          <5> HIDE DEF e
          <5>1. CASE n = b
            BY <3>3, <4>1, <4>3, <5>1
          <5>2. CASE n # b
            <6>1. n \in 0..(b - 1) /\ e[n] = g[n] /\ (n # 0 => n - 1 \in 0..b /\ n - 1 # b /\ e[n - 1] = g[n - 1])
              BY <4>1, <4>3, <5>2
            <6> QED BY <4>4, <6>1
          <5> QED BY <5>1, <5>2
        <4>6. Climbs(e, i, b)
          BY <4>5
        <4> QED BY <3>1, <4>6
      <3> QED BY <3>2, <3>3
    <2> HIDE DEF Up
    <2> QED BY <1>2, <2>1
  <1>4. ASSUME NEW i \in D PROVE h(i)[size] = Root
    <2>1. Climbs(h(i), i, size)
      <3> HIDE DEF Up
      <3> QED BY <1>3
    <2>2. PICK f : f = h(i)
      OBVIOUS
    <2>3. \A n \in 0..size : f[n] = IF n = 0 THEN i ELSE Up(f[n - 1])
      <3> HIDE DEF Up, h
      <3> QED BY <2>1, <2>2
    <2> HIDE DEF h
    <2> DEFINE Before(k) == {d \in D : d < k}
               Good(n) == f[n] = Root \/ (f[n] \in D /\ Cardinality(Before(f[n])) + n < size)
               Bad == {n \in 0..size : ~Good(n)}
    <2>4. \A k \in D : IsFiniteSet(Before(k)) /\ Cardinality(Before(k)) \in Nat
      BY FS_Subset, FS_CardinalityType
    <2>5. Good(0)
      <3>1. f[0] = i
        BY <1>2, <2>3
      <3>2. Before(i) \cup {i} \subseteq D /\ i \notin Before(i)
        OBVIOUS
      <3>3. Cardinality(Before(i) \cup {i}) = Cardinality(Before(i)) + 1
        <4> HIDE DEF Before
        <4> QED BY <2>4, <3>2, FS_AddElement
      <3>4. Cardinality(Before(i) \cup {i}) <= size
        <4> HIDE DEF Before
        <4> QED BY <1>1, <3>2, FS_Subset
      <3>5. Cardinality(Before(i)) + 0 < size
        <4> HIDE DEF Before
        <4> QED BY <1>2, <2>4, <3>3, <3>4
      <3> QED BY <3>1, <3>5
    <2>6. ASSUME NEW n \in Nat, n + 1 \in 0..size, Good(n) PROVE Good(n + 1)
      <3>1. f[n + 1] = Up(f[n])
        <4> HIDE DEF Up
        <4> QED BY <1>2, <2>3, <2>6
      <3>2. CASE f[n] = Root
        BY <3>1, <3>2
      <3>3. CASE f[n] \in D /\ Cardinality(Before(f[n])) + n < size
        <4>1. PICK j, k : k = f[n] /\ j = tree[f[n]]
          OBVIOUS
        <4>2. k \in D /\ f[n + 1] = j /\ (j = Root \/ j \in D) /\ j < k
          BY <3>1, <3>3, <4>1
        <4>3. CASE j \in D
          <5>1. Before(j) \cup {j} \subseteq Before(k) /\ j \notin Before(j)
            BY <4>2, <4>3
          <5>2. IsFiniteSet(Before(k)) /\ IsFiniteSet(Before(j)) /\ Cardinality(Before(j)) \in Nat
                /\ Cardinality(Before(k)) \in Nat
            BY <2>4, <4>2, <4>3
          <5>3. Cardinality(Before(j) \cup {j}) = Cardinality(Before(j)) + 1
            <6> HIDE DEF Before
            <6> QED BY <5>1, <5>2, FS_AddElement
          <5>4. Cardinality(Before(j) \cup {j}) <= Cardinality(Before(k))
            <6> HIDE DEF Before
            <6> QED BY <5>1, <5>2, FS_Subset
          <5>5. Cardinality(Before(k)) + n < size
            BY <3>3, <4>1
          <5>6. Cardinality(Before(j)) + (n + 1) < size
            <6> HIDE DEF Before
            <6> QED BY <1>2, <2>6, <5>2, <5>3, <5>4, <5>5
          <5> QED BY <4>2, <4>3, <5>6
        <4> QED BY <4>2, <4>3
      <3> QED BY <2>6, <3>2, <3>3
    <2>7. ASSUME Bad # {} PROVE FALSE
      <3>1. PICK b \in Bad : \A k \in Bad : b <= k
        <4>1. Bad \subseteq Nat
          BY <1>2
        <4> HIDE DEF Bad
        <4> QED BY <2>7, <4>1, Least
      <3> HIDE DEF Good
      <3>2. PICK n \in Nat : b = n + 1
        BY <1>2, <2>5, <3>1
      <3>3. n \in 0..size /\ n \notin Bad
        BY <1>2, <3>1, <3>2
      <3>4. Good(n + 1)
        BY <2>6, <3>1, <3>2, <3>3
      <3> QED BY <3>1, <3>2, <3>4
    <2>8. Good(size)
      <3> HIDE DEF Good
      <3> QED BY <1>2, <2>7
    <2>9. f[size] = Root
      <3> HIDE DEF Before
      <3> QED BY <1>2, <2>4, <2>8
    <2> QED BY <2>2, <2>9
  <1>5. Reached(tree) = {i \in D : h(i)[size] = Root}
    BY <1>1 DEF Reached
  <1> HIDE DEF h
  <1> QED BY <1>4, <1>5

\* The hardware page shows every part of the current version once, and an imported row
\* below the nearest row before it one level up (Parse, insertHardwareTree, buildHardwareTree).
LEMMA TreeFaithful == DocSpec => []TreeIsFaithful
  <1>1. ASSUME DocInv PROVE TreeIsWhole
    <2>1. /\ PartsAreBelow /\ parts \in Seq(PartRows) /\ Len(parts) \in Nat /\ DOMAIN parts = 1..Len(parts)
      BY <1>1 DEF DocInv, DocTypeOK
    <2>2. PICK doc : doc = resolveHBOMDocument
      OBVIOUS
    <2>3. PICK D : D = Nodes(doc)
      OBVIOUS
    <2>4. D \subseteq 1..Len(parts)
      BY <2>1, <2>3 DEF Nodes
    <2>5. IsFiniteSet(D)
      <3>1. 0 \in Int /\ 1 \in Int /\ Len(parts) \in Int
        BY <2>1
      <3>2. IsFiniteSet(1..Len(parts))
        BY <3>1, FS_Interval
      <3> QED BY <2>4, <3>2, FS_Subset
    <2>6. PICK tree : tree = GetHardwareTree
      OBVIOUS
    <2>7. tree = [i \in D |-> IF parts[i].parent \in D THEN parts[i].parent ELSE Root]
      BY <2>2, <2>3, <2>6 DEF GetHardwareTree, buildHardwareTree
    <2>8. \A i \in D : parts[i].parent < i /\ i > 0
      BY <2>1, <2>4 DEF PartsAreBelow
    <2>9. D \subseteq Nat /\ Root \notin D
      BY <2>1, <2>4 DEF Root
    <2>10. \A i \in D : tree[i] \in D \cup {Root} /\ tree[i] < i
      BY <2>7, <2>8 DEF Root
    <2>11. Reached(tree) = D
      BY <2>5, <2>7, <2>9, <2>10, EveryNodeIsReached
    <2> QED BY <2>2, <2>3, <2>6, <2>11 DEF TreeIsWhole
  <1>2. ASSUME DocInv PROVE ImportKeepsTree
    <2>1. /\ hardware \in Seq(Lists \cup {<< >>}) /\ DOMAIN hardware = 1..Len(hardware)
          /\ DOMAIN parts = 1..Len(parts)
      BY <1>2 DEF DocInv, DocTypeOK
    <2>2. ASSUME NEW v \in 1..Len(hardware), StartsAtRoot(hardware[v]), NEW line \in Kept(hardware[v])
          PROVE  \E i \in Nodes(v) : /\ parts[i].row = line
                                      /\ LET up == Above(hardware[v], line)
                                         IN IF up = Root THEN parts[i].parent = Root ELSE parts[parts[i].parent].row = up
      <3>1. RowsPlaced(v)
        BY <1>2 DEF DocInv, ListsArePlaced
      <3>2. PICK i \in 1..Len(parts) :
              /\ parts[i].doc = v /\ parts[i].row = line
              /\ Above(hardware[v], line) = Root => parts[i].parent = Root
              /\ Above(hardware[v], line) # Root =>
                   parts[i].parent \in 1..(i - 1) /\ parts[parts[i].parent].row = Above(hardware[v], line)
        BY <2>2, <3>1 DEF RowsPlaced
      <3>3. i \in Nodes(v)
        BY <2>1, <3>2 DEF Nodes
      <3> QED BY <3>2, <3>3
    <2> QED BY <2>1, <2>2 DEF ImportKeepsTree
  <1>3. DocInv => TreeIsFaithful
    BY <1>1, <1>2 DEF TreeIsFaithful
  <1> QED BY <1>3, DocHolds, PTL

\* What was saved is what the pages show, and the hardware tree is the one that was
\* imported, whatever else is imported, saved, normalized or rolled back meanwhile.
THEOREM DocumentsSound == DocSpec => []DocumentsAreSound
  <1>1. DocSpec => [](SavedIsShown /\ TreeIsFaithful)
    BY SavedShown, TreeFaithful, PTL
  <1> QED BY <1>1 DEF DocumentsAreSound

HIDE DocAssumption

(***************************************************************************)
(* Triage                                                                  *)
(***************************************************************************)
VexRows == [cluster : Nat, key : Nat, scope : Scopes, status : Statuses, version : Nat, at : Nat, by : Nat, after : Nat]
VexPosts ==
  [cluster : Nat, key : Nat, scope : {d.scope : d \in Decisions} \cup {"project"},
   status : {d.status : d \in Decisions}, reason : BOOLEAN]

VexReading == [pc : {"read"}, at : Nat, after : Nat, next : VexPosts]
VexWriting == [pc : {"write"}, at : Nat, after : Nat, next : VexPosts, previous : Nat, version : Nat]
Deciding(r) == r.pc \in {"read", "write"}

VexTypeOK ==
  /\ statements \in Seq(VexRows)
  /\ forward \in [Clusters -> Clusters]
  /\ findings \subseteq Clusters \X Keys
  /\ clock \in Nat
  /\ request \in [Authors -> {Resting} \cup VexReading \cup VexWriting \cup [pc : {"publish"}, statement : Nat]]

\* A statement or a request carries the time at which its transaction began; what it
\* follows was there by then.
TimesAreOwn ==
  /\ \A i \in StatementIds : statements[i].at \in 1..clock /\ statements[i].after < i
  /\ \A i, j \in StatementIds : statements[i].at = statements[j].at => i = j
  /\ \A i, j \in StatementIds : i <= statements[j].after => statements[i].at < statements[j].at

RequestsAreLater ==
  /\ \A a \in Authors : Deciding(request[a]) =>
       /\ request[a].at \in 1..clock /\ request[a].after <= Len(statements)
       /\ \A i \in StatementIds : /\ statements[i].at # request[a].at
                                  /\ i <= request[a].after => statements[i].at < request[a].at
  /\ \A a, b \in Authors : Deciding(request[a]) /\ Deciding(request[b]) /\ request[a].at = request[b].at => a = b

\* What a stored statement follows is superseded no later than it is: a write supersedes
\* the oldest statement that lives.
Followed(i) ==
  {j \in StatementIds : SameTuple(statements[j], statements[i]) /\ j <= statements[i].after}
OldestGoFirst ==
  /\ \A i \in StatementIds : statements[i].by # 0 => \A j \in Followed(i) : statements[j].by # 0
  /\ \A a \in Authors : request[a].pc = "write" =>
       /\ Validate(request[a].next)
       /\ request[a].previous # 0 =>
            /\ request[a].previous \in StatementIds
            /\ \A j \in Followed(request[a].previous) : statements[j].by # 0

VexInv == VexTypeOK /\ TimesAreOwn /\ RequestsAreLater /\ OldestGoFirst

USE VexAssumption

LEMMA VexTyping ==
  /\ \A r \in VexRows : r.cluster \in Nat /\ r.key \in Nat /\ r.scope \in Scopes /\ r.status \in Statuses
  /\ \A r \in VexRows : r.version \in Nat /\ r.at \in Nat /\ r.by \in Nat /\ r.after \in Nat
  /\ \A r \in VexReading \cup VexWriting : r.at \in Nat /\ r.after \in Nat /\ r.next \in VexPosts
  /\ \A r \in VexReading : r.pc = "read"
  /\ \A r \in VexWriting : r.pc = "write" /\ r.previous \in Nat /\ r.version \in Nat
  BY DEF VexRows, VexReading, VexWriting

\* Seen one by one, the statements and the requests have their types.
LEMMA VexTyped ==
  ASSUME VexTypeOK
  PROVE  /\ \A i \in StatementIds : statements[i] \in VexRows
         /\ StatementIds = 1..Len(statements) /\ Len(statements) \in Nat
         /\ \A a \in Authors : request[a].pc = "read" => request[a] \in VexReading
         /\ \A a \in Authors : request[a].pc = "write" => request[a] \in VexWriting
  <1>1. \A r : r \in {Resting} \cup VexReading \cup VexWriting \cup [pc : {"publish"}, statement : Nat]
          => (r.pc = "read" => r \in VexReading) /\ (r.pc = "write" => r \in VexWriting)
    BY DEF Resting, VexReading, VexWriting
  <1>2. /\ \A i \in StatementIds : statements[i] \in VexRows
        /\ StatementIds = 1..Len(statements) /\ Len(statements) \in Nat
    BY DEF VexTypeOK, StatementIds
  <1> QED BY <1>1, <1>2 DEF VexTypeOK

LEMMA SpecificityType == \A scope \in Scopes : specificity(scope) \in Nat
  BY DEF Scopes, specificity

\* Resolve's order has a first statement in every set: the narrowest scopes, and of those
\* the newest.
LEMMA BestExists ==
  ASSUME VexTypeOK, TimesAreOwn, NEW S, S \subseteq StatementIds, S # {}
  PROVE  \E i \in S : \A j \in S \ {i} : Outranks(statements[i], statements[j])
  <1> DEFINE spec(i) == specificity(statements[i].scope)
             Levels == {spec(i) : i \in S}
  <1>1. \A i \in S : spec(i) \in Nat /\ statements[i].at \in 1..clock
    BY VexTyped, VexTyping, SpecificityType DEF TimesAreOwn
  <1>2. PICK p \in Levels : \A q \in Levels : p <= q
    <2>1. Levels \subseteq Nat /\ Levels # {}
      BY <1>1
    <2> HIDE DEF Levels
    <2> QED BY <2>1, Least
  <1> DEFINE Narrowest == {i \in S : spec(i) = p}
             Ages == {clock - statements[i].at : i \in Narrowest}
  <1>3. PICK o \in Ages : \A q \in Ages : o <= q
    <2>1. Ages \subseteq Nat
      BY <1>1 DEF VexTypeOK
    <2>2. Ages # {}
      BY <1>2, ZenonT(60)
    <2> HIDE DEF Ages
    <2> QED BY <2>1, <2>2, Least
  <1>4. PICK i \in Narrowest : o = clock - statements[i].at
    BY <1>3
  <1>5. ASSUME NEW j \in S \ {i} PROVE Outranks(statements[i], statements[j])
    <2>1. spec(i) = p /\ p \in Nat /\ spec(j) \in Nat /\ p <= spec(j)
      BY <1>1, <1>2
    <2>2. statements[i].at \in Nat /\ statements[j].at \in Nat /\ clock \in Nat
      <3>1. clock \in Nat
        BY DEF VexTypeOK
      <3>2. statements[i].at \in 1..clock /\ statements[j].at \in 1..clock
        BY <1>1
      <3> QED BY <3>1, <3>2
    <2>3. statements[i].at # statements[j].at
      BY DEF TimesAreOwn
    <2>4. CASE spec(j) = p
      <3>1. clock - statements[j].at \in Ages
        BY <2>4
      <3>2. statements[j].at < statements[i].at
        <4>1. o <= clock - statements[j].at
          <5> HIDE DEF Ages
          <5> QED BY <1>3, <3>1
        <4> QED BY <1>4, <2>2, <2>3, <4>1
      <3> QED BY <2>1, <2>4, <3>2 DEF Outranks, Newer
    <2>5. CASE spec(j) # p
      <3>1. spec(i) < spec(j)
        BY <2>1, <2>5
      <3> QED BY <3>1 DEF Outranks
    <2> QED BY <2>4, <2>5
  <1> QED BY <1>5

LEMMA OldestExists ==
  ASSUME VexTypeOK, TimesAreOwn, NEW S, S \subseteq StatementIds, S # {}
  PROVE  \E i \in S : \A j \in S \ {i} : statements[i].at < statements[j].at
  <1> DEFINE Times == {statements[i].at : i \in S}
  <1>1. \A i \in S : statements[i].at \in Nat
    BY VexTyped, VexTyping
  <1>2. PICK t \in Times : \A q \in Times : t <= q
    <2>1. Times \subseteq Nat /\ Times # {}
      BY <1>1
    <2> HIDE DEF Times
    <2> QED BY <2>1, Least
  <1>3. PICK i \in S : t = statements[i].at
    BY <1>2
  <1>4. ASSUME NEW j \in S \ {i} PROVE statements[i].at < statements[j].at
    BY <1>1, <1>2, <1>3 DEF TimesAreOwn
  <1> QED BY <1>4

\* What Resolve chooses applies, and outranks every statement that could take its place.
LEMMA ResolveChooses ==
  ASSUME VexTypeOK, TimesAreOwn, NEW c, NEW k, Resolve(c, k) # 0
  PROVE  /\ Resolve(c, k) \in StatementIds
         /\ Applies(statements[Resolve(c, k)], c, k)
         /\ \A j \in StatementIds \ {Resolve(c, k)} :
              Applies(statements[j], c, k)
                /\ (statements[j].by = 0 \/ statements[Resolve(c, k)].by # 0)
              => Outranks(statements[Resolve(c, k)], statements[j])
  <1> DEFINE applicable == {i \in StatementIds : Applies(statements[i], c, k)}
             live == {i \in applicable : statements[i].by = 0}
             pool == IF live = {} THEN applicable ELSE live
  <1>1. applicable # {} /\ Resolve(c, k) = First(pool, Outranks)
    BY DEF Resolve
  <1>2. pool \subseteq StatementIds /\ pool # {}
    BY <1>1
  <1>3. \E i \in pool : \A j \in pool \ {i} : Outranks(statements[i], statements[j])
    <2> HIDE DEF pool
    <2> QED BY <1>2, BestExists
  <1>4. /\ First(pool, Outranks) \in pool
        /\ \A j \in pool \ {First(pool, Outranks)} : Outranks(statements[First(pool, Outranks)], statements[j])
    <2> HIDE DEF pool
    <2> QED BY <1>3, SMTT(60) DEF First
  <1> QED BY <1>1, <1>4

LEMMA CurrentChooses ==
  ASSUME VexTypeOK, TimesAreOwn, NEW next, current(next) # 0
  PROVE  /\ current(next) \in StatementIds
         /\ \A j \in StatementIds \ {current(next)} :
              statements[j].by = 0 /\ SameTuple(statements[j], statements[current(next)])
              => statements[current(next)].at < statements[j].at
  <1> DEFINE live == {i \in StatementIds : statements[i].by = 0 /\ SameTuple(statements[i], next)}
             oldest == CHOOSE i \in live : \A j \in live \ {i} : statements[i].at < statements[j].at
  <1>1. live # {} /\ current(next) = oldest
    BY DEF current, First
  <1>2. \E i \in live : \A j \in live \ {i} : statements[i].at < statements[j].at
    <2>1. live \subseteq StatementIds
      OBVIOUS
    <2> HIDE DEF live
    <2> QED BY <1>1, <2>1, OldestExists
  <1>3. oldest \in live /\ \A j \in live \ {oldest} : statements[oldest].at < statements[j].at
    <2> HIDE DEF live
    <2> QED BY <1>2
  <1> QED BY <1>1, <1>3, ZenonT(60) DEF SameTuple

LEMMA VexInitially == VexInit => VexInv
  <1> SUFFICES ASSUME VexInit PROVE VexInv
    OBVIOUS
  <1>1. statements = << >> /\ StatementIds = {} /\ clock = 0
    BY DEF VexInit, StatementIds
  <1>2. \A a \in Authors : request[a] = Resting /\ request[a].pc = "idle"
    BY DEF VexInit, Resting
  <1>3. VexTypeOK
    <2>1. forward \in [Clusters -> Clusters] /\ findings \subseteq Clusters \X Keys
      BY DEF VexInit
    <2>2. request \in [Authors -> {Resting}]
      BY DEF VexInit
    <2> QED BY <1>1, <2>1, <2>2 DEF VexTypeOK
  <1>4. TimesAreOwn
    BY <1>1 DEF TimesAreOwn
  <1>5. RequestsAreLater /\ OldestGoFirst
    BY <1>1, <1>2 DEF RequestsAreLater, OldestGoFirst, Deciding
  <1> QED BY <1>3, <1>4, <1>5 DEF VexInv

\* One author's step that stores no statement keeps the invariant: it goes on with the
\* time it had, or begins now.
LEMMA RequestStep ==
  ASSUME VexInv, VexTypeOK', UNCHANGED statements, clock' \in {clock, clock + 1},
         NEW a \in Authors, \A b \in Authors \ {a} : request'[b] = request[b],
         Deciding(request[a])' =>
           \/ /\ Deciding(request[a])
              /\ request'[a].at = request[a].at /\ request'[a].after = request[a].after
           \/ clock' = clock + 1 /\ request'[a].at = clock + 1 /\ request'[a].after = Len(statements),
         request'[a].pc = "write" =>
           /\ Validate(request'[a].next)
           /\ request'[a].previous # 0 =>
                /\ request'[a].previous \in StatementIds
                /\ \A j \in Followed(request'[a].previous) : statements[j].by # 0
  PROVE  VexInv'
  <1>1. StatementIds' = StatementIds /\ Len(statements') = Len(statements)
    BY DEF StatementIds
  <1>2. clock \in Nat /\ clock' \in Nat /\ Len(statements) \in Nat
    BY VexTyped DEF VexInv, VexTypeOK
  <1>3. TimesAreOwn'
    BY <1>1, <1>2 DEF VexInv, TimesAreOwn
  <1>4. ASSUME NEW b \in Authors, Deciding(request[b])'
        PROVE  /\ request'[b].at \in 1..clock' /\ request'[b].after <= Len(statements)
               /\ \A i \in StatementIds :
                    /\ statements[i].at # request'[b].at
                    /\ i <= request'[b].after => statements[i].at < request'[b].at
               /\ \A c \in Authors : Deciding(request[c])' /\ request'[c].at = request'[b].at => b = c
    <2>1. \A c \in Authors : Deciding(request[c]) => request[c].at \in 1..clock
      BY DEF VexInv, RequestsAreLater
    <2>2. \A i \in StatementIds : statements[i].at \in 1..clock
      BY DEF VexInv, TimesAreOwn
    <2>3. \A c \in Authors : Deciding(request[c])' =>
            \/ /\ Deciding(request[c])
               /\ request'[c].at = request[c].at /\ request'[c].after = request[c].after
            \/ /\ c = a /\ clock' = clock + 1
               /\ request'[c].at = clock + 1 /\ request'[c].after = Len(statements)
      BY DEF Deciding
    <2>4. \A c \in Authors : Deciding(request[c])' /\ request'[c].at = request'[b].at => b = c
      BY <1>2, <1>4, <2>1, <2>3 DEF VexInv, RequestsAreLater
    <2>5. CASE /\ Deciding(request[b])
               /\ request'[b].at = request[b].at /\ request'[b].after = request[b].after
      BY <1>2, <2>4, <2>5 DEF VexInv, RequestsAreLater
    <2>6. CASE /\ b = a /\ clock' = clock + 1
               /\ request'[b].at = clock + 1 /\ request'[b].after = Len(statements)
      BY <1>2, <2>2, <2>4, <2>6
    <2> QED BY <1>4, <2>3, <2>5, <2>6
  <1>5. RequestsAreLater'
    BY <1>1, <1>4 DEF RequestsAreLater
  <1>6. \A i \in StatementIds : Followed(i)' = Followed(i)
    BY <1>1 DEF Followed
  <1>7. OldestGoFirst'
    <2>1. \A i \in StatementIds : statements[i].by # 0 => \A j \in Followed(i) : statements[j].by # 0
      BY DEF VexInv, OldestGoFirst
    <2>2. ASSUME NEW b \in Authors, request'[b].pc = "write"
          PROVE  /\ Validate(request'[b].next)
                 /\ request'[b].previous # 0 =>
                      /\ request'[b].previous \in StatementIds
                      /\ \A j \in Followed(request'[b].previous) : statements[j].by # 0
      BY <2>2 DEF VexInv, OldestGoFirst
    <2> QED BY <1>1, <1>6, <2>1, <2>2 DEF OldestGoFirst
  <1> QED BY <1>3, <1>5, <1>7 DEF VexInv

LEMMA RequestTyped ==
  ASSUME VexTypeOK, NEW a \in Authors, NEW r,
         r \in {Resting} \cup VexReading \cup VexWriting \cup [pc : {"publish"}, statement : Nat]
  PROVE  /\ [request EXCEPT ![a] = r] \in
              [Authors -> {Resting} \cup VexReading \cup VexWriting \cup [pc : {"publish"}, statement : Nat]]
         /\ [request EXCEPT ![a] = r][a] = r
         /\ \A b \in Authors \ {a} : [request EXCEPT ![a] = r][b] = request[b]
  <1> DEFINE R == {Resting} \cup VexReading \cup VexWriting \cup [pc : {"publish"}, statement : Nat]
  <1>1. request \in [Authors -> R] /\ r \in R
    BY DEF VexTypeOK
  <1> HIDE DEF R
  <1>2. /\ [request EXCEPT ![a] = r] \in [Authors -> R]
        /\ [request EXCEPT ![a] = r][a] = r
        /\ \A b \in Authors \ {a} : [request EXCEPT ![a] = r][b] = request[b]
    BY <1>1
  <1> QED BY <1>2 DEF R

LEMMA CreateKeeps ==
  ASSUME VexInv, NEW a \in Authors, NEW d \in Decisions, CreateVEXStatement(a, d)
  PROVE  VexInv'
  <1>1. PICK scope : /\ scope = (IF d.scope = "" THEN "project" ELSE d.scope)
                     /\ request' = [request EXCEPT ![a] =
                          [pc |-> "read", at |-> clock', after |-> Len(statements),
                           next |-> [d EXCEPT !.scope = scope]]]
    BY DEF CreateVEXStatement
  <1>2. clock' = clock + 1 /\ clock \in Nat /\ Len(statements) \in Nat /\ UNCHANGED <<statements, forward, findings>>
    BY VexTyped DEF CreateVEXStatement, VexInv, VexTypeOK
  <1>3. d \in VexPosts
    BY DEF VexPosts
  <1>4. scope \in {e.scope : e \in Decisions} \cup {"project"}
    BY <1>1
  <1>5. [d EXCEPT !.scope = scope] \in VexPosts
    BY <1>3, <1>4 DEF VexPosts
  <1>6. PICK next : next = [d EXCEPT !.scope = scope]
    OBVIOUS
  <1> DEFINE r == [pc |-> "read", at |-> clock + 1, after |-> Len(statements), next |-> next]
  <1>7. r \in VexReading /\ r.pc = "read" /\ r.at = clock + 1 /\ r.after = Len(statements)
    BY <1>2, <1>5, <1>6 DEF VexReading
  <1>8. request' = [request EXCEPT ![a] = r]
    BY <1>1, <1>2, <1>6
  <1> HIDE DEF r
  <1>9. /\ request' \in [Authors -> {Resting} \cup VexReading \cup VexWriting \cup [pc : {"publish"}, statement : Nat]]
        /\ request'[a] = r /\ \A b \in Authors \ {a} : request'[b] = request[b]
    BY <1>7, <1>8, RequestTyped DEF VexInv
  <1>10. VexTypeOK'
    BY <1>2, <1>9 DEF VexInv, VexTypeOK
  <1> QED BY <1>2, <1>7, <1>9, <1>10, RequestStep

LEMMA ReadKeeps ==
  ASSUME VexInv, NEW a \in Authors, ReadCurrent(a)
  PROVE  VexInv'
  <1>1. request[a] \in VexReading /\ request[a].pc = "read" /\ UNCHANGED <<statements, forward, findings, clock>>
    BY VexTyped DEF ReadCurrent, VexInv
  <1>2. PICK previous, version :
          /\ previous = current(request[a].next) /\ version = Supersede(previous, request[a].next)
          /\ request' = [request EXCEPT ![a] =
               IF Validate(request[a].next)
               THEN [pc |-> "write", at |-> request[a].at, after |-> request[a].after,
                     next |-> request[a].next, previous |-> previous, version |-> version]
               ELSE Resting]
    BY DEF ReadCurrent
  <1>3. CASE ~Validate(request[a].next)
    <2>1. request' = [request EXCEPT ![a] = Resting]
      BY <1>2, <1>3
    <2>2. /\ request' \in [Authors -> {Resting} \cup VexReading \cup VexWriting \cup [pc : {"publish"}, statement : Nat]]
          /\ request'[a] = Resting /\ \A b \in Authors \ {a} : request'[b] = request[b]
      BY <2>1, RequestTyped DEF VexInv
    <2>3. VexTypeOK'
      BY <1>1, <2>2 DEF VexInv, VexTypeOK
    <2> QED BY <1>1, <2>2, <2>3, RequestStep DEF Resting, Deciding
  <1>4. CASE Validate(request[a].next)
    <2> DEFINE r == [pc |-> "write", at |-> request[a].at, after |-> request[a].after,
                     next |-> request[a].next, previous |-> previous, version |-> version]
    <2>1. previous # 0 => previous \in StatementIds /\ statements[previous] \in VexRows /\ previous \in Nat
      BY <1>2, CurrentChooses, VexTyped DEF VexInv
    <2>2. previous \in Nat /\ version \in Nat
      BY <1>2, <2>1, VexTyping DEF Supersede
    <2>3. r \in VexWriting /\ r.at = request[a].at /\ r.after = request[a].after /\ r.pc = "write"
          /\ r.next = request[a].next /\ r.previous = previous
      BY <1>1, <2>2, VexTyping DEF VexWriting
    <2>4. request' = [request EXCEPT ![a] = r]
      BY <1>2, <1>4
    <2> HIDE DEF r
    <2>5. /\ request' \in [Authors -> {Resting} \cup VexReading \cup VexWriting \cup [pc : {"publish"}, statement : Nat]]
          /\ request'[a] = r /\ \A b \in Authors \ {a} : request'[b] = request[b]
      BY <2>3, <2>4, RequestTyped DEF VexInv
    <2>6. VexTypeOK'
      BY <1>1, <2>5 DEF VexInv, VexTypeOK
    <2>7. ASSUME previous # 0, NEW j \in Followed(previous) PROVE statements[j].by # 0
      <3>1. j \in StatementIds /\ SameTuple(statements[j], statements[previous]) /\ j <= statements[previous].after
        BY <2>7 DEF Followed
      <3>2. statements[j].at < statements[previous].at
        BY <2>1, <2>7, <3>1 DEF VexInv, TimesAreOwn
      <3>3. statements[j].at \in Nat /\ statements[previous].at \in Nat
        BY <2>1, <2>7, <3>1, VexTyped, VexTyping DEF VexInv
      <3> QED BY <1>2, <2>7, <3>1, <3>2, <3>3, CurrentChooses DEF VexInv
    <2>8. Deciding(request[a])
      BY <1>1 DEF Deciding
    <2> QED BY <1>1, <1>4, <2>1, <2>3, <2>5, <2>6, <2>7, <2>8, RequestStep
  <1> QED BY <1>3, <1>4

LEMMA RestKeeps ==
  ASSUME VexInv, NEW a \in Authors, UNCHANGED <<statements, forward, findings, clock>>,
         request' = [request EXCEPT ![a] = Resting]
  PROVE  VexInv'
  <1>1. /\ request' \in [Authors -> {Resting} \cup VexReading \cup VexWriting \cup [pc : {"publish"}, statement : Nat]]
        /\ request'[a] = Resting /\ \A b \in Authors \ {a} : request'[b] = request[b]
    BY RequestTyped DEF VexInv
  <1>2. VexTypeOK'
    BY <1>1 DEF VexInv, VexTypeOK
  <1> QED BY <1>1, <1>2, RequestStep DEF Resting, Deciding

LEMMA GenerateKeeps ==
  ASSUME VexInv, NEW a \in Authors, NEW i \in StatementIds, GenerateCSAFAdvisory(a, i)
  PROVE  VexInv'
  <1> DEFINE r == [pc |-> "publish", statement |-> i]
  <1>1. r \in [pc : {"publish"}, statement : Nat] /\ r.pc = "publish"
    BY VexTyped DEF VexInv
  <1>2. /\ clock' = clock + 1 /\ clock \in Nat /\ UNCHANGED <<statements, forward, findings>>
        /\ request' = [request EXCEPT ![a] = r]
    BY DEF GenerateCSAFAdvisory, VexInv, VexTypeOK
  <1> HIDE DEF r
  <1>3. /\ request' \in [Authors -> {Resting} \cup VexReading \cup VexWriting \cup [pc : {"publish"}, statement : Nat]]
        /\ request'[a] = r /\ \A b \in Authors \ {a} : request'[b] = request[b]
    BY <1>1, <1>2, RequestTyped DEF VexInv
  <1>4. VexTypeOK'
    BY <1>2, <1>3 DEF VexInv, VexTypeOK
  <1> QED BY <1>1, <1>2, <1>3, <1>4, RequestStep DEF Deciding

LEMMA ClustersKeep ==
  ASSUME VexInv, UNCHANGED <<statements, request, clock>>,
         forward' \in [Clusters -> Clusters], findings' \subseteq Clusters \X Keys
  PROVE  VexInv'
  <1>1. VexTypeOK'
    BY DEF VexInv, VexTypeOK
  <1>2. TimesAreOwn'
    BY DEF VexInv, TimesAreOwn, StatementIds
  <1>3. RequestsAreLater'
    BY DEF VexInv, RequestsAreLater, StatementIds, Deciding
  <1>4. OldestGoFirst'
    BY DEF VexInv, OldestGoFirst, StatementIds, Followed
  <1> QED BY <1>1, <1>2, <1>3, <1>4 DEF VexInv

\* The new statement follows what was there when its request began, and only its
\* predecessor is marked.
LEMMA InsertKeeps ==
  ASSUME VexInv, NEW a \in Authors, InsertStatement(a)
  PROVE  VexInv'
  <1>1. PICK r : r = request[a]
    OBVIOUS
  <1>2. /\ r \in VexWriting /\ r.pc = "write" /\ Validate(r.next) /\ Deciding(request[a])
        /\ r.at \in 1..clock /\ r.after <= Len(statements) /\ r.after \in Nat /\ r.at \in Nat
        /\ r.next \in VexPosts /\ r.version \in Nat /\ r.previous \in Nat
    <2>1. request[a].pc = "write"
      BY DEF InsertStatement
    <2>2. request[a] \in VexWriting
      BY <2>1, VexTyped DEF VexInv
    <2>3. Deciding(request[a]) /\ Validate(request[a].next)
      BY <2>1 DEF Deciding, VexInv, OldestGoFirst
    <2>4. request[a].at \in 1..clock /\ request[a].after <= Len(statements)
      BY <2>3 DEF VexInv, RequestsAreLater
    <2> QED BY <1>1, <2>1, <2>2, <2>3, <2>4, VexTyping
  <1>3. PICK n : n = Len(statements)
    OBVIOUS
  <1> DEFINE line == [cluster |-> r.next.cluster, key |-> r.next.key, scope |-> r.next.scope,
                     status |-> r.next.status, version |-> r.version, at |-> r.at,
                     by |-> 0, after |-> r.after]
             marked == [i \in StatementIds |-> IF i = r.previous THEN [statements[i] EXCEPT !.by = n + 1]
                                               ELSE statements[i]]
  <1>4. /\ statements' = Append(marked, line)
        /\ request' = [request EXCEPT ![a] = Resting]
        /\ UNCHANGED <<forward, findings, clock>>
    BY <1>1, <1>3 DEF InsertStatement
  <1>5. n \in Nat /\ StatementIds = 1..n /\ clock \in Nat
    BY <1>3, VexTyped DEF VexInv, VexTypeOK
  <1>6. line \in VexRows /\ line.by = 0 /\ line.at = r.at /\ line.after = r.after
    BY <1>2 DEF VexRows, VexPosts, Validate
  <1>7. \A i \in 1..n : marked[i] \in VexRows
    BY <1>5, VexTyped, SMTT(60) DEF VexInv, VexRows
  <1>8. marked \in Seq(VexRows) /\ Len(marked) = n
    <2>1. marked \in [1..n -> VexRows]
      BY <1>5, <1>7
    <2> HIDE DEF marked
    <2> QED BY <1>5, <2>1
  <1>9. \A i \in 1..n : /\ SameTuple(marked[i], statements[i]) /\ marked[i].at = statements[i].at
                        /\ marked[i].after = statements[i].after
                        /\ (i = r.previous => marked[i].by # 0)
                        /\ (i # r.previous => marked[i].by = statements[i].by)
    BY <1>5, VexTyped DEF VexInv, VexRows, SameTuple
  <1> HIDE DEF line, marked
  <1>10. /\ statements' \in Seq(VexRows) /\ Len(statements') = n + 1
         /\ statements'[n + 1] = line /\ \A i \in 1..n : statements'[i] = marked[i]
    BY <1>4, <1>5, <1>6, <1>8
  <1>11. StatementIds' = 1..(n + 1)
    BY <1>5, <1>10 DEF StatementIds
  <1>12. /\ request' \in [Authors -> {Resting} \cup VexReading \cup VexWriting \cup [pc : {"publish"}, statement : Nat]]
         /\ request'[a] = Resting /\ \A b \in Authors \ {a} : request'[b] = request[b]
    BY <1>4, RequestTyped DEF VexInv
  <1>13. VexTypeOK'
    BY <1>4, <1>10, <1>12 DEF VexInv, VexTypeOK
  <1>14. /\ \A i \in 1..n : statements[i].at \in 1..clock /\ statements[i].after < i /\ statements[i].at # r.at
         /\ \A i \in 1..n : i <= r.after => statements[i].at < r.at
         /\ \A i \in 1..n : statements[i].after \in Nat
    BY <1>1, <1>2, <1>5, VexTyped, VexTyping DEF VexInv, TimesAreOwn, RequestsAreLater
  <1>15. TimesAreOwn'
    <2>1. \A i \in 1..n : statements'[i].at = statements[i].at /\ statements'[i].after = statements[i].after
      BY <1>9, <1>10
    <2>2. statements'[n + 1].at = r.at /\ statements'[n + 1].after = r.after
      BY <1>6, <1>10
    <2>3. \A i, j \in 1..n : /\ statements[i].at = statements[j].at => i = j
                             /\ i <= statements[j].after => statements[i].at < statements[j].at
      BY <1>5 DEF VexInv, TimesAreOwn
    <2>4. \A i \in 1..(n + 1) : i \in 1..n \/ i = n + 1
      BY <1>5
    <2>5. \A i \in 1..(n + 1) : statements'[i].at \in 1..clock' /\ statements'[i].after < i
      <3>1. \A i \in 1..n : statements'[i].at \in 1..clock' /\ statements'[i].after < i
        BY <1>4, <1>14, <2>1
      <3>2. statements'[n + 1].at \in 1..clock'
        BY <1>2, <1>4, <2>2
      <3>3. statements'[n + 1].after < n + 1
        BY <1>2, <1>3, <1>5, <2>2
      <3> QED BY <2>4, <3>1, <3>2, <3>3
    <2>6. \A i, j \in 1..(n + 1) : statements'[i].at = statements'[j].at => i = j
      BY <1>14, <2>1, <2>2, <2>3, <2>4
    <2>7. \A i, j \in 1..(n + 1) : i <= statements'[j].after => statements'[i].at < statements'[j].at
      BY <1>2, <1>3, <1>5, <1>14, <2>1, <2>2, <2>3, <2>4, SMTT(60)
    <2> QED BY <1>11, <2>5, <2>6, <2>7 DEF TimesAreOwn
  <1>16. RequestsAreLater'
    <2>1. \A b \in Authors : Deciding(request[b])' => b # a /\ request'[b] = request[b] /\ Deciding(request[b])
      BY <1>12 DEF Deciding, Resting
    <2>2. ASSUME NEW b \in Authors, Deciding(request[b])'
          PROVE  /\ request'[b].at \in 1..clock' /\ request'[b].after <= n + 1
                 /\ \A i \in 1..(n + 1) :
                      /\ statements'[i].at # request'[b].at
                      /\ i <= request'[b].after => statements'[i].at < request'[b].at
      <3>1. b # a /\ request'[b] = request[b] /\ Deciding(request[b])
        BY <2>1, <2>2
      <3>2. /\ request[b].at \in 1..clock /\ request[b].after <= n
            /\ \A i \in 1..n : /\ statements[i].at # request[b].at
                               /\ i <= request[b].after => statements[i].at < request[b].at
            /\ request[b].at # r.at
        BY <1>1, <1>2, <1>3, <1>5, <3>1 DEF VexInv, RequestsAreLater
      <3>3. request[b].after \in Nat
        BY <3>1, VexTyped, VexTyping DEF VexInv, Deciding
      <3>4. \A i \in 1..(n + 1) : i \in 1..n \/ i = n + 1
        BY <1>5
      <3>5. \A i \in 1..n : statements'[i].at = statements[i].at
        BY <1>9, <1>10
      <3>6. statements'[n + 1].at = r.at
        BY <1>6, <1>10
      <3>7. request'[b].at \in 1..clock' /\ request'[b].after <= n + 1
        BY <1>4, <1>5, <3>1, <3>2, <3>3
      <3>8. \A i \in 1..n : /\ statements'[i].at # request'[b].at
                            /\ i <= request'[b].after => statements'[i].at < request'[b].at
        BY <3>1, <3>2, <3>5
      <3>9. ~ (n + 1 <= request'[b].after)
        BY <1>5, <3>1, <3>2, <3>3
      <3>10. statements'[n + 1].at # request'[b].at
        BY <3>1, <3>2, <3>6
      <3> QED BY <3>4, <3>7, <3>8, <3>9, <3>10
    <2> QED BY <1>10, <1>11, <2>1, <2>2 DEF VexInv, RequestsAreLater
  <1>17. \A i \in 1..n : Followed(i)' = Followed(i)
    <2>1. \A i, j \in 1..n : SameTuple(statements'[j], statements'[i]) <=> SameTuple(statements[j], statements[i])
      BY <1>9, <1>10 DEF SameTuple
    <2>2. \A i \in 1..n : statements'[i].after = statements[i].after
      BY <1>9, <1>10
    <2>3. \A i \in 1..n : ~ (n + 1 <= statements[i].after)
      BY <1>5, <1>14
    <2> QED BY <1>5, <1>11, <2>1, <2>2, <2>3 DEF Followed
  <1>18. \A i \in 1..n : statements[i].by # 0 => statements'[i].by # 0
    BY <1>9, <1>10
  <1>19. OldestGoFirst'
    <2>1. \A i \in 1..n : Followed(i) \subseteq 1..n
      BY <1>5 DEF Followed
    <2>2. ASSUME NEW i \in 1..(n + 1), statements'[i].by # 0, NEW j \in Followed(i)'
          PROVE  statements'[j].by # 0
      <3>1. i \in 1..n
        BY <1>5, <1>6, <1>10, <2>2
      <3>2. j \in Followed(i) /\ j \in 1..n
        BY <1>17, <2>1, <2>2, <3>1
      <3>3. CASE i = r.previous
        BY <1>1, <1>2, <1>18, <3>2, <3>3, <3>1 DEF VexInv, OldestGoFirst
      <3>4. CASE i # r.previous
        <4>1. statements[i].by # 0
          BY <1>9, <1>10, <2>2, <3>1, <3>4
        <4> QED BY <1>5, <1>18, <3>1, <3>2, <4>1 DEF VexInv, OldestGoFirst
      <3> QED BY <3>3, <3>4
    <2>3. ASSUME NEW b \in Authors, (request[b].pc = "write")'
          PROVE  /\ Validate(request[b].next)'
                 /\ (request[b].previous # 0)' =>
                      /\ (request[b].previous \in StatementIds)'
                      /\ (\A j \in Followed(request[b].previous) : statements[j].by # 0)'
      <3>1. request'[b] = request[b] /\ request[b].pc = "write"
        BY <1>12, <2>3 DEF Resting
      <3>2. PICK p : p = request[b].previous
        OBVIOUS
      <3>3. Validate(request[b].next) /\ (p # 0 => p \in 1..n /\ \A j \in Followed(p) : statements[j].by # 0)
        BY <1>5, <3>1, <3>2 DEF VexInv, OldestGoFirst
      <3>4. request'[b].previous = p
        BY <3>1, <3>2
      <3>5. p # 0 => \A j \in Followed(p) : statements'[j].by # 0
        BY <1>18, <2>1, <3>3
      <3>6. p # 0 => \A j \in Followed(p)' : statements'[j].by # 0
        BY <1>17, <3>3, <3>5
      <3>7. p # 0 => p \in StatementIds'
        BY <1>5, <1>11, <3>3
      <3> HIDE DEF Followed
      <3>8. (request[b].previous)' = p
        BY <3>4
      <3>9. Validate(request[b].next)'
        BY <3>1, <3>3 DEF Validate
      <3>10. p # 0 => (\A j \in Followed(request[b].previous) : statements[j].by # 0)'
        BY <3>6, <3>8
      <3> QED BY <3>7, <3>8, <3>9, <3>10
    <2>4. \A i \in StatementIds' : statements'[i].by # 0 => \A j \in Followed(i)' : statements'[j].by # 0
      BY <1>11, <2>2
    <2> QED BY <2>3, <2>4 DEF OldestGoFirst
  <1> QED BY <1>13, <1>15, <1>16, <1>19 DEF VexInv

LEMMA VexStep == VexInv /\ [VexNext]_vexVars => VexInv'
  <1> SUFFICES ASSUME VexInv, [VexNext]_vexVars PROVE VexInv'
    OBVIOUS
  <1> USE DEF VexInv
  <1>1. CASE UNCHANGED vexVars
    BY <1>1, ClustersKeep DEF vexVars, VexTypeOK
  <1> HIDE DEF VexInv
  <1>2. ASSUME NEW low \in Clusters, NEW high \in Clusters, MergeClusters(low, high) PROVE VexInv'
    <2>1. forward' \in [Clusters -> Clusters]
      BY <1>2 DEF MergeClusters, VexInv, VexTypeOK
    <2>2. UNCHANGED <<statements, request, clock, findings>> /\ findings \subseteq Clusters \X Keys
      BY <1>2 DEF MergeClusters, VexInv, VexTypeOK
    <2> QED BY <2>1, <2>2, ClustersKeep
  <1>3. ASSUME Renormalize PROVE VexInv'
    <2>1. UNCHANGED <<statements, request, clock, forward>>
      BY <1>3 DEF Renormalize
    <2>2. forward \in [Clusters -> Clusters] /\ findings \subseteq Clusters \X Keys
      BY DEF VexInv, VexTypeOK
    <2>3. findings' \subseteq Clusters \X Keys
      <3>1. \A f \in findings : <<forward[f[1]], f[2]>> \in Clusters \X Keys
        BY <2>2
      <3> QED BY <1>3, <3>1 DEF Renormalize
    <2> QED BY <2>1, <2>2, <2>3, ClustersKeep
  <1>4. ASSUME NEW a \in Authors, InsertAdvisory(a) \/ Abandon(a) PROVE VexInv'
    BY <1>4, RestKeeps DEF InsertAdvisory, Abandon
  <1>5. ASSUME NEW a \in Authors, InsertStatement(a) PROVE VexInv'
    BY <1>5, InsertKeeps
  <1> QED BY <1>1, <1>2, <1>3, <1>4, <1>5, CreateKeeps, ReadKeeps, GenerateKeeps DEF VexNext

\* The narrower scope stands and in it the newer decision, so that what was decided later
\* about the same thing is never outweighed; and where the report prints a finding as open
\* the findings page shows its vulnerability as open (Resolve, CreateVEXStatement,
\* loadClusterVEX).
THEOREM TriageHonest == VexSpec => []TriageIsHonest
  <1>1. ASSUME VexInv PROVE LaterDecisionStands
    <2> SUFFICES ASSUME NEW i \in StatementIds, NEW j \in StatementIds,
                        SameTuple(statements[i], statements[j]), i <= statements[j].after,
                        NEW k \in Keys, Resolve(statements[i].cluster, k) = i
                 PROVE  FALSE
      BY DEF LaterDecisionStands
    <2>1. statements[i].at < statements[j].at /\ statements[i].at \in Nat /\ statements[j].at \in Nat
      BY <1>1, VexTyped, VexTyping DEF VexInv, TimesAreOwn
    <2>2. i # 0 /\ j # i
      BY <1>1, <2>1, VexTyped DEF VexInv
    <2>3. statements[j].by = 0 \/ statements[i].by # 0
      BY <1>1 DEF VexInv, OldestGoFirst, Followed
    <2>4. Applies(statements[i], statements[i].cluster, k)
      BY <1>1, <2>2, ResolveChooses DEF VexInv
    <2>5. Applies(statements[j], statements[i].cluster, k)
      BY <2>4 DEF Applies, SameTuple
    <2>6. Outranks(statements[i], statements[j])
      BY <1>1, <2>2, <2>3, <2>5, ResolveChooses DEF VexInv
    <2>7. statements[i].scope = statements[j].scope /\ specificity(statements[i].scope) \in Nat
      BY <1>1, VexTyped, VexTyping, SpecificityType DEF SameTuple, VexInv
    <2> QED BY <2>1, <2>6, <2>7 DEF Outranks, Newer
  <1>2. ASSUME VexInv PROVE OpenFindingShows
    <2> SUFFICES ASSUME NEW f \in findings, Resolve(f[1], f[2]) # 0, ~DeEmphasized(Resolve(f[1], f[2]))
                 PROVE  PageVEX(f[1]) # 0 /\ ~DeEmphasized(PageVEX(f[1]))
      BY DEF OpenFindingShows, ReportRow
    <2>1. PICK c, k : c = f[1] /\ k = f[2]
      OBVIOUS
    <2>2. c \in Clusters /\ k \in Keys /\ <<c, k>> \in findings
      BY <1>2, <2>1 DEF VexInv, VexTypeOK
    <2> DEFINE answered == {l \in Affected(c) : Resolve(c, l) # 0}
               open == {l \in answered : ~DeEmphasized(Resolve(c, l))}
               first == CHOOSE l \in open : \A m \in open : l <= m
    <2>3. k \in open
      BY <2>1, <2>2 DEF Affected
    <2>4. open \subseteq Nat
      BY DEF Affected
    <2>5. first \in open
      <3> HIDE DEF open
      <3> QED BY <2>3, <2>4, Least
    <2>6. PageVEX(c) = Resolve(c, first)
      BY <2>3 DEF PageVEX
    <2> QED BY <2>1, <2>5, <2>6
  <1>3. VexInv => TriageIsHonest
    BY <1>1, <1>2 DEF TriageIsHonest
  <1> QED BY <1>3, VexInitially, VexStep, PTL DEF VexSpec
==============================================================================
