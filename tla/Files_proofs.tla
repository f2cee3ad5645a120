---------------------------- MODULE Files_proofs ----------------------------
(***************************************************************************)
(* Proofs about Files and Users, for any sets of users, files, products,   *)
(* requests and bodies.                                                    *)
(*                                                                         *)
(* A file record has copies: the row, if it exists, and what the handlers  *)
(* of completeUpload hold in memory.  A row that has gone with its owner   *)
(* can come back from such a copy, so what must not change about a file is *)
(* stated of all its copies at once.                                       *)
(***************************************************************************)
EXTENDS Files, FiniteSetTheorems, TLAPS

USE NoneIsNoId, RowsAssumption

UserSaves == {"saveUser", "updateUser", "reinsertUser"}
FileSaves == {"saveFile", "updateFile", "reinsertFile"}
Completing == {"headObject", "bind"} \cup FileSaves

\* The copies of the record of file f.
Copies(f) ==
  ({files[f]} \ {None}) \cup
  {entity[r] : r \in {q \in Requests : pc[q] \in Completing /\ file[q] = f}}

\* Two copies of a record differ at most in what completeUpload sets.
SameFile(a, b) == a.owner = b.owner /\ a.kind = b.kind /\ a.target = b.target

-----------------------------------------------------------------------------
(* The inductive invariant.                                                *)

\* The body, the record in memory and the file id that a handler relies on.
Handled(r) ==
  /\ pc[r] # "done" => answer[r] = "none"
  /\ pc[r] # "start" => body[r] \in Inputs
  /\ pc[r] \in {"findEmail", "insertUser"} => body[r] \in SignUp
  /\ pc[r] \in {"preload"} \cup UserSaves => body[r] \in Update
  /\ pc[r] \in {"checkProduct", "insertFile", "sign"} => body[r] \in Presign
  /\ pc[r] \in {"checkProduct", "insertFile"} => ValidUpload(body[r])
  /\ pc[r] = "checkProduct" => body[r].kind = "product-image"
  /\ pc[r] \in {"findFile"} \cup Completing => body[r] \in Complete
  /\ pc[r] \in UserSaves => entity[r] \in UserRow
  /\ pc[r] \in Completing => entity[r] \in FileRow
  /\ pc[r] = "findFile" => file[r] \in FileIds
  /\ pc[r] \in {"sign"} \cup Completing => file[r] \in fileIds
  /\ pc[r] = "updateUser" => changed[r] \subseteq {"email", "avatarFileId"}
  /\ pc[r] = "updateFile" => changed[r] \subseteq {"entityId", "status"}

HandlersInv == \A r \in Requests : Handled(r)

\* Rows have ids that were drawn, so that a new file has no copies.
RowsAreDrawn == \A f \in FileIds : files[f] # None => f \in fileIds

CopiesAgree == \A f \in FileIds : \A a, b \in Copies(f) : SameFile(a, b)

\* A copy says READY only if the object was found.
ReadyCopies == \A f \in FileIds : \A a \in Copies(f) : a.status = "READY" => f \in objects

\* What is saved is ready and bound, and the columns that its UPDATE leaves
\* alone are as they should be.
Saved(r) ==
  /\ pc[r] \in {"bind"} \cup FileSaves => entity[r].status = "READY"
  /\ pc[r] \in FileSaves => file[r] \in bound /\ entity[r].entityId = entity[r].target
  /\ pc[r] = "updateFile" /\ files[file[r]] # None =>
       /\ "status" \in changed[r] \/ files[file[r]].status = "READY"
       /\ "entityId" \in changed[r] \/ files[file[r]].entityId = files[file[r]].target

SavesInv == \A r \in Requests : Saved(r)

\* A completion that has succeeded was of a file that had a record.
Completed(r) ==
  answer[r] = "ok" /\ body[r] \in Complete =>
    file[r] \in fileIds /\ (files[file[r]] # None => files[file[r]].status = "READY")

CompletionsInv == \A r \in Requests : Completed(r)

\* f is an uploaded avatar of u, or was one before its record was deleted.
IsAvatarOf(f, u) ==
  /\ f \in objects
  /\ \A a \in Copies(f) : a.kind = "avatar" /\ a.target = u

\* The avatar that an update of other columns would write back, from the row
\* as it was when the update loaded it.
KeepsAvatar(r) ==
  /\ pc[r] \in UserSaves /\ "avatarFileId" \notin DOMAIN body[r].set
  /\ body[r].user \notin patched /\ entity[r].avatarFileId # None
  => IsAvatarOf(entity[r].avatarFileId, body[r].user)

AvatarsInv == \A r \in Requests : KeepsAvatar(r)

FilesInv ==
  /\ TypeOK /\ HandlersInv /\ RowsAreDrawn
  /\ CopiesAgree /\ ReadyCopies
  /\ SavesInv /\ ReadyFilesWereBound /\ CompletionsInv
  /\ AvatarsInv /\ LinksMatchKeys
  /\ OneUserPerEmail

-----------------------------------------------------------------------------
(* Rows and records.                                                       *)

\* A record has the columns of its table.
LEMMA Columns ==
  /\ \A row \in UserRow : DOMAIN row = {"email", "avatarFileId"}
  /\ \A row \in FileRow : DOMAIN row = {"owner", "kind", "target", "entityId", "status"}
BY DEF UserRow, FileRow

\* An UPDATE of a user writes the changed columns and leaves the others.
LEMMA PatchUser ==
  ASSUME NEW r \in Requests, NEW row \in UserRow, entity[r] \in UserRow
  PROVE  /\ Patch(r, row) \in UserRow
         /\ Patch(r, row).email = IF "email" \in changed[r] THEN entity[r].email ELSE row.email
         /\ Patch(r, row).avatarFileId =
              IF "avatarFileId" \in changed[r] THEN entity[r].avatarFileId ELSE row.avatarFileId
BY DEF UserRow, Patch

\* So does an UPDATE of a file; completeUpload changes only two columns.
LEMMA PatchFile ==
  ASSUME NEW r \in Requests, NEW row \in FileRow, entity[r] \in FileRow,
         changed[r] \subseteq {"entityId", "status"}
  PROVE  /\ Patch(r, row) \in FileRow
         /\ SameFile(Patch(r, row), row)
         /\ Patch(r, row).status = IF "status" \in changed[r] THEN entity[r].status ELSE row.status
         /\ Patch(r, row).entityId =
              IF "entityId" \in changed[r] THEN entity[r].entityId ELSE row.entityId
<1>1. DOMAIN row = {"owner", "kind", "target", "entityId", "status"}
  BY Columns
<1> QED  BY <1>1 DEF FileRow, Patch, SameFile

-----------------------------------------------------------------------------
(* Types, and what the handlers rely on.                                   *)

Shape == TypeOK /\ HandlersInv /\ RowsAreDrawn

\* The op of a body tells what else it has.
LEMMA BodyKinds ==
  ASSUME NEW b \in Inputs
  PROVE  /\ b.op = "signup" => b \in SignUp
         /\ b.op = "update" => b \in Update
         /\ b.op = "presign" => b \in Presign
         /\ b.op = "complete" <=> b \in Complete
BY InputsAssumption DEF SignUp, Update, Presign, Complete

\* Request q is where it was, with all it has in memory.
Still(q) ==
  /\ pc'[q] = pc[q] /\ body'[q] = body[q] /\ entity'[q] = entity[q]
  /\ changed'[q] = changed[q] /\ answer'[q] = answer[q] /\ file'[q] = file[q]

RequestStep(r) == (\E b \in Inputs : Start(r, b)) \/ UserStep(r) \/ FileStep(r) \/ Abort(r)

\* A step of one request leaves the memory of the others alone.
LEMMA OthersStay ==
  ASSUME TypeOK, NEW r \in Requests, RequestStep(r), NEW q \in Requests, q # r
  PROVE  Still(q)
<1> USE DEF TypeOK, Still, Finish, Goto, fileVars, requestVars
<1>1. CASE \E b \in Inputs : Start(r, b)
  BY <1>1 DEF Start
<1>2. CASE FindByEmail(r) /\ UNCHANGED fileVars
  BY <1>2 DEF FindByEmail
<1>3. CASE InsertUser(r) /\ UNCHANGED fileVars
  BY <1>3 DEF InsertUser
<1>4. CASE Preload(r) /\ UNCHANGED fileVars
  BY <1>4 DEF Preload
<1>5. CASE SelectUser(r) /\ UNCHANGED fileVars
  BY <1>5 DEF SelectUser
<1>6. CASE (UpdateUser(r, Existing) \/ ReinsertUser(r, Existing)) /\ UNCHANGED fileVars
  BY <1>6 DEF UpdateUser, ReinsertUser
<1>7. CASE CheckProduct(r) \/ InsertFile(r) \/ Sign(r)
  BY <1>7 DEF CheckProduct, InsertFile, Sign
<1>8. CASE FindFile(r) \/ HeadObject(r)
  BY <1>8 DEF FindFile, HeadObject
<1>9. CASE Bind(r)
  BY <1>9 DEF Bind
<1>10. CASE SelectFile(r) \/ UpdateFile(r) \/ ReinsertFile(r)
  BY <1>10 DEF SelectFile, UpdateFile, ReinsertFile
<1>11. CASE Abort(r)
  BY <1>11 DEF Abort
<1> QED
  BY <1>1, <1>2, <1>3, <1>4, <1>5, <1>6, <1>7, <1>8, <1>9, <1>10, <1>11
  DEF RequestStep, UserStep, FileStep

\* A request that does not move relies on what it relied on.
LEMMA HandledStays ==
  ASSUME NEW q \in Requests, Handled(q), Still(q), fileIds \subseteq fileIds'
  PROVE  Handled(q)'
BY DEF Handled, Still, Completing, FileSaves, ValidUpload

\* A request with an answer relies on nothing.
LEMMA HandledDone ==
  ASSUME NEW r \in Requests, pc'[r] = "done", body'[r] \in Inputs
  PROVE  Handled(r)'
BY DEF Handled, Completing, FileSaves, UserSaves

\* The types at the start.
LEMMA ShapeInit == Init => Shape
<1> SUFFICES ASSUME Init PROVE Shape  OBVIOUS
<1>1. TypeOK
  BY LimitsAssumption DEF Init, TypeOK, Steps, Answers
<1>2. HandlersInv /\ RowsAreDrawn
  BY DEF Init, HandlersInv, Handled, RowsAreDrawn, UserSaves, FileSaves, Completing
<1> QED  BY <1>1, <1>2 DEF Shape

\* A request arrives: the checks of createPresignedUpload that come before its
\* first await have been passed where they count.
LEMMA ShapeStart ==
  ASSUME Shape, NEW r \in Requests, NEW b \in Inputs, Start(r, b)
  PROVE  TypeOK' /\ Handled(r)'
<1> USE DEF Shape
<1>1. /\ body'[r] = b /\ entity'[r] = entity[r] /\ changed'[r] = changed[r]
      /\ UNCHANGED fileIds
  BY DEF Start, TypeOK
<1>2. CASE b.op \in {"signup", "update"}
  BY <1>1, <1>2, BodyKinds
  DEF Start, Goto, TypeOK, HandlersInv, Handled, Steps, UserSaves, FileSaves, Completing,
      userVars, storeVars
<1>3. CASE b.op = "complete"
  <2>1. b \in Complete /\ b.fileId \in FileIds
    BY <1>3, BodyKinds DEF Complete
  <2> QED
    BY <1>1, <1>3, <2>1
    DEF Start, Goto, TypeOK, HandlersInv, Handled, Steps, UserSaves, FileSaves, Completing,
        userVars, storeVars
<1>4. CASE b.op = "presign"
  <2>1. b \in Presign /\ b.kind \in {"avatar", "product-image"}
    BY <1>4, BodyKinds DEF Presign
  <2>2. TypeOK'
    BY <1>4, <2>1
    DEF Start, Goto, Finish, TypeOK, Steps, Answers, userVars, storeVars
  <2>3. CASE pc'[r] = "done"
    BY <1>1, <2>2, <2>3, HandledDone
  <2>4. CASE pc'[r] # "done"
    <3>1. /\ ValidUpload(b) /\ answer' = answer
          /\ pc'[r] = IF b.kind = "avatar" THEN "insertFile" ELSE "checkProduct"
      BY <1>4, <2>4 DEF Start, Goto, Finish, TypeOK
    <3>2. answer'[r] = "none"
      BY <3>1 DEF Start, HandlersInv, Handled
    <3>3. ValidUpload(body[r])'
      BY <1>1, <3>1 DEF ValidUpload
    <3>4. pc'[r] = "insertFile" \/ (pc'[r] = "checkProduct" /\ body'[r].kind = "product-image")
      BY <1>1, <2>1, <3>1
    <3>5. body'[r] \in Presign /\ body'[r] \in Inputs
      BY <1>1, <2>1
    <3> QED
      BY <1>1, <2>2, <3>2, <3>3, <3>4, <3>5 DEF Handled, UserSaves, FileSaves, Completing
  <2> QED  BY <2>2, <2>3, <2>4
<1> QED  BY <1>2, <1>3, <1>4 DEF Start

\* The SELECTs of create and updateUser.
LEMMA ShapeUserReads ==
  ASSUME Shape, NEW r \in Requests, UNCHANGED <<fileVars, products, storeVars, deletes, bound>>,
         FindByEmail(r) \/ Preload(r) \/ SelectUser(r)
  PROVE  TypeOK' /\ Handled(r)'
<1> USE DEF Shape, fileVars, storeVars, userVars
<1>0. Handled(r) /\ UNCHANGED body
  BY DEF HandlersInv, FindByEmail, Preload, SelectUser
<1>1. CASE FindByEmail(r)
  <2>1. TypeOK'
    BY <1>1 DEF FindByEmail, Finish, Goto, TypeOK, Steps, Answers
  <2> QED
    BY <1>0, <1>1, <2>1 DEF FindByEmail, Finish, Goto, TypeOK, Handled,
         UserSaves, FileSaves, Completing
<1>2. CASE Preload(r)
  <2> DEFINE u == body[r].user
  <2>1. body[r] \in Update
    BY <1>0, <1>2 DEF Preload, Handled
  <2>2. CASE ~UserExists(u)
    <3>1. TypeOK'
      BY <1>2, <2>2 DEF Preload, Finish, Goto, TypeOK, Steps, Answers
    <3> QED
      BY <1>0, <1>2, <2>2, <3>1, HandledDone DEF Preload, Finish, Goto, TypeOK, Handled
  <2>3. CASE UserExists(u)
    <3> DEFINE e == [c \in DOMAIN users[u] |->
                       IF c \in DOMAIN body[r].set THEN body[r].set[c] ELSE users[u][c]]
    <3>1. users[u] \in UserRow
      BY <2>3 DEF UserExists, TypeOK
    <3>2. e \in UserRow
      <4>1. DOMAIN users[u] = {"email", "avatarFileId"}
        BY <3>1, Columns
      <4>2. body[r].set \in [{"email"} -> Emails] \cup [{"avatarFileId"} -> FileIds \cup {None}]
                              \cup [email : Emails, avatarFileId : FileIds \cup {None}]
        BY <2>1 DEF Update
      <4>3. "email" \in DOMAIN body[r].set => body[r].set["email"] \in Emails
        BY <4>2
      <4>4. "avatarFileId" \in DOMAIN body[r].set =>
              body[r].set["avatarFileId"] \in FileIds \cup {None}
        BY <4>2
      <4>5. users[u].email \in Emails /\ users[u].avatarFileId \in FileIds \cup {None}
        BY <3>1 DEF UserRow
      <4> QED  BY <4>1, <4>3, <4>4, <4>5 DEF UserRow
    <3>3. /\ entity' = [entity EXCEPT ![r] = e]
          /\ pc' = [pc EXCEPT ![r] = "saveUser"]
          /\ UNCHANGED <<answer, changed>>
      BY <1>2, <2>3 DEF Preload, Goto
    <3> HIDE DEF e
    <3>4. TypeOK'
      BY <1>2, <3>2, <3>3 DEF Preload, TypeOK, Steps
    <3>5. entity'[r] \in UserRow /\ pc'[r] = "saveUser"
      BY <3>2, <3>3 DEF TypeOK
    <3> QED
      BY <1>0, <1>2, <2>1, <3>3, <3>4, <3>5
      DEF Preload, Handled, UserSaves, FileSaves, Completing
  <2> QED  BY <2>2, <2>3
<1>3. CASE SelectUser(r)
  <2>1. entity[r] \in UserRow /\ body[r] \in Update
    BY <1>0, <1>3 DEF SelectUser, Handled, UserSaves
  <2>2. DOMAIN entity[r] = {"email", "avatarFileId"}
    BY <2>1, Columns
  <2>3. /\ \/ changed' = changed
           \/ \E s \in SUBSET {"email", "avatarFileId"} : changed' = [changed EXCEPT ![r] = s]
        /\ pc' = [pc EXCEPT ![r] = "updateUser"] \/ pc' = [pc EXCEPT ![r] = "reinsertUser"]
        /\ pc' = [pc EXCEPT ![r] = "updateUser"] =>
             \E s \in SUBSET {"email", "avatarFileId"} : changed' = [changed EXCEPT ![r] = s]
        /\ UNCHANGED <<entity, answer>>
    BY <1>3, <2>2 DEF SelectUser, Goto, TypeOK
  <2>4. TypeOK'
    <3>1. changed' \in [Requests -> SUBSET {"email", "avatarFileId", "entityId", "status"}]
      BY <2>3 DEF TypeOK
    <3>2. pc' \in [Requests -> Steps]
      BY <2>3 DEF TypeOK, Steps
    <3> QED  BY <1>3, <2>3, <3>1, <3>2 DEF SelectUser, TypeOK
  <2> QED
    BY <1>0, <1>3, <2>1, <2>3, <2>4
    DEF SelectUser, TypeOK, Handled, UserSaves, FileSaves, Completing
<1> QED  BY <1>1, <1>2, <1>3

\* The writes of create and updateUser: a row written is a row of users, and
\* the request is answered.
LEMMA ShapeUserWrites ==
  ASSUME Shape, NEW r \in Requests, UNCHANGED <<fileVars, products, storeVars, deletes, bound>>,
         InsertUser(r) \/ UpdateUser(r, Existing) \/ ReinsertUser(r, Existing)
  PROVE  TypeOK' /\ Handled(r)'
<1> USE DEF Shape, fileVars, storeVars
<1>0. Handled(r) /\ UNCHANGED <<body, entity, changed>>
  BY DEF HandlersInv, InsertUser, UpdateUser, ReinsertUser
<1>1. /\ pc'[r] = "done" /\ pc' \in [Requests -> Steps]
      /\ answer' \in [Requests -> Answers]
  BY DEF InsertUser, UpdateUser, ReinsertUser, Finish, Goto, TypeOK, Steps, Answers
<1>2. /\ users' \in [UserIds -> UserRow \cup {None}]
      /\ userIds' \subseteq UserIds /\ patched' \subseteq UserIds
  <2>1. CASE InsertUser(r)
    <3>1. body[r].email \in Emails
      BY <1>0, <2>1 DEF InsertUser, Handled, SignUp
    <3>2. [email |-> body[r].email, avatarFileId |-> None] \in UserRow
      BY <3>1 DEF UserRow
    <3> QED  BY <2>1, <3>2 DEF InsertUser, TypeOK
  <2>2. CASE UpdateUser(r, Existing)
    <3>1. entity[r] \in UserRow /\ body[r].user \in UserIds
      BY <1>0, <2>2 DEF UpdateUser, Handled, UserSaves, Update
    <3>2. UserExists(body[r].user) => Patch(r, users[body[r].user]) \in UserRow
      BY <3>1, PatchUser DEF UserExists, TypeOK
    <3> QED  BY <2>2, <3>1, <3>2 DEF UpdateUser, MarkPatched, TypeOK
  <2>3. CASE ReinsertUser(r, Existing)
    <3>1. entity[r] \in UserRow /\ body[r].user \in UserIds
      BY <1>0, <2>3 DEF ReinsertUser, Handled, UserSaves, Update
    <3> QED  BY <2>3, <3>1 DEF ReinsertUser, MarkPatched, TypeOK
  <2> QED  BY <2>1, <2>2, <2>3
<1>3. TypeOK'
  BY <1>0, <1>1, <1>2 DEF TypeOK
<1>4. body'[r] \in Inputs
  BY <1>0 DEF Handled, InsertUser, UpdateUser, ReinsertUser
<1> QED  BY <1>1, <1>3, <1>4, HandledDone

\* The steps of createPresignedUpload.
LEMMA ShapePresign ==
  ASSUME Shape, NEW r \in Requests, CheckProduct(r) \/ InsertFile(r) \/ Sign(r)
  PROVE  TypeOK' /\ Handled(r)' /\ RowsAreDrawn' /\ fileIds \subseteq fileIds'
<1> USE DEF Shape, fileVars, storeVars, userVars
<1>0. Handled(r) /\ UNCHANGED <<body, entity, changed>>
  BY DEF HandlersInv, CheckProduct, InsertFile, Sign
<1>1. CASE CheckProduct(r)
  <2>1. TypeOK'
    BY <1>1 DEF CheckProduct, Finish, Goto, TypeOK, Steps, Answers
  <2>2. CASE Finish(r, "notFound")
    <3>1. pc'[r] = "done" /\ body'[r] \in Inputs
      BY <1>0, <1>1, <2>2 DEF Finish, Goto, TypeOK, CheckProduct, Handled
    <3> QED  BY <1>1, <2>1, <3>1, HandledDone DEF CheckProduct, RowsAreDrawn
  <2>3. CASE Goto(r, "insertFile") /\ UNCHANGED answer
    <3>1. pc'[r] = "insertFile" /\ answer'[r] = "none"
      BY <1>0, <1>1, <2>3 DEF Goto, TypeOK, CheckProduct, Handled
    <3>2. body[r] \in Presign /\ body[r] \in Inputs /\ ValidUpload(body[r])
      BY <1>0, <1>1 DEF CheckProduct, Handled
    <3>3. Handled(r)'
      BY <1>0, <3>1, <3>2 DEF Handled, UserSaves, FileSaves, Completing, ValidUpload
    <3> QED  BY <1>1, <2>1, <3>3 DEF CheckProduct, RowsAreDrawn
  <2> QED  BY <1>1, <2>2, <2>3 DEF CheckProduct
<1>2. CASE InsertFile(r)
  <2>1. body[r] \in Presign /\ body[r] \in Inputs /\ ValidUpload(body[r])
    BY <1>0, <1>2 DEF InsertFile, Handled
  <2>2. NewFile(body[r]) \in FileRow
    BY <2>1 DEF NewFile, FileRow, Presign, ValidUpload
  <2>3. CASE UserExists(body[r].user)
    <3>1. PICK f \in FileIds \ fileIds :
            /\ files' = [files EXCEPT ![f] = NewFile(body[r])]
            /\ fileIds' = fileIds \cup {f}
            /\ file' = [file EXCEPT ![r] = f]
      BY <1>2, <2>3 DEF InsertFile
    <3>2. pc' = [pc EXCEPT ![r] = "sign"] /\ UNCHANGED answer
      BY <1>2, <2>3 DEF InsertFile, Goto
    <3>3. TypeOK'
      BY <1>2, <2>2, <3>1, <3>2 DEF InsertFile, TypeOK, Steps
    <3>4. pc'[r] = "sign" /\ file'[r] \in fileIds' /\ answer'[r] = "none"
      BY <1>0, <1>2, <3>1, <3>2 DEF TypeOK, Handled, InsertFile
    <3>5. Handled(r)'
      BY <1>0, <2>1, <3>4 DEF Handled, UserSaves, FileSaves, Completing
    <3>6. RowsAreDrawn'
      BY <3>1 DEF RowsAreDrawn, TypeOK
    <3> QED  BY <3>1, <3>3, <3>5, <3>6
  <2>4. CASE ~UserExists(body[r].user)
    <3>1. TypeOK'
      BY <1>2, <2>4 DEF InsertFile, Finish, Goto, TypeOK, Steps, Answers
    <3>2. pc'[r] = "done" /\ body'[r] \in Inputs /\ UNCHANGED <<files, fileIds>>
      BY <1>0, <1>2, <2>1, <2>4 DEF InsertFile, Finish, Goto, TypeOK
    <3> QED  BY <3>1, <3>2, HandledDone DEF RowsAreDrawn
  <2> QED  BY <2>3, <2>4
<1>3. CASE Sign(r)
  <2>1. file[r] \in fileIds /\ body[r] \in Inputs
    BY <1>0, <1>3 DEF Sign, Handled
  <2>2. TypeOK'
    BY <1>3, <2>1 DEF Sign, Finish, Goto, TypeOK, Steps, Answers
  <2>3. pc'[r] = "done" /\ body'[r] \in Inputs
    BY <1>0, <1>3, <2>1 DEF Sign, Finish, Goto, TypeOK
  <2> QED  BY <1>3, <2>2, <2>3, HandledDone DEF Sign, RowsAreDrawn
<1> QED  BY <1>1, <1>2, <1>3

\* What a handler of completeUpload has in memory is a copy, and so is the row.
LEMMA MemoryIsCopy ==
  ASSUME NEW r \in Requests, pc[r] \in Completing
  PROVE  /\ entity[r] \in Copies(file[r])
         /\ files[file[r]] # None => files[file[r]] \in Copies(file[r])
BY DEF Copies

\* findByIdOrThrow, assertOwner and the check of the object.
LEMMA ShapeFind ==
  ASSUME Shape, NEW r \in Requests, FindFile(r) \/ HeadObject(r)
  PROVE  TypeOK' /\ Handled(r)' /\ RowsAreDrawn' /\ fileIds \subseteq fileIds'
<1> USE DEF Shape, fileVars, storeVars, userVars
<1>0. /\ Handled(r) /\ UNCHANGED <<body, changed, file, files, fileIds>>
      /\ body[r] \in Complete /\ body[r] \in Inputs
  BY DEF HandlersInv, Handled, FindFile, HeadObject, Completing
<1>1. RowsAreDrawn'
  BY <1>0 DEF RowsAreDrawn
<1>2. CASE \E what \in Answers : Finish(r, what) /\ UNCHANGED entity
  <2>1. pc'[r] = "done" /\ TypeOK'
    BY <1>2 DEF FindFile, HeadObject, Finish, Goto, TypeOK, Steps
  <2> QED  BY <1>0, <1>1, <2>1, HandledDone
<1>3. ASSUME NEW step \in {"headObject", "bind"}, NEW row \in FileRow, Goto(r, step),
             entity' = [entity EXCEPT ![r] = row], UNCHANGED answer, file[r] \in fileIds
      PROVE  TypeOK' /\ Handled(r)' /\ RowsAreDrawn' /\ fileIds \subseteq fileIds'
  <2>1. TypeOK'
    BY <1>3 DEF FindFile, HeadObject, Goto, TypeOK, Steps
  <2>2. pc'[r] = step /\ entity'[r] = row /\ answer'[r] = "none"
    BY <1>0, <1>3 DEF Goto, TypeOK, Handled, FindFile, HeadObject
  <2>3. Handled(r)'
    BY <1>0, <1>3, <2>2 DEF Handled, UserSaves, FileSaves, Completing
  <2> QED  BY <1>0, <1>1, <2>1, <2>3
<1>4. CASE FindFile(r)
  <2>1. file[r] \in FileIds
    BY <1>0, <1>4 DEF FindFile, Handled
  <2>2. CASE /\ files[file[r]] # None
             /\ entity' = [entity EXCEPT ![r] = files[file[r]]]
             /\ Goto(r, IF files[file[r]].status = "PENDING" THEN "headObject" ELSE "bind")
             /\ UNCHANGED answer
    BY <1>3, <2>1, <2>2 DEF RowsAreDrawn, TypeOK
  <2> QED  BY <1>2, <1>4, <2>2 DEF FindFile, Answers
<1>5. CASE HeadObject(r)
  <2>1. entity[r] \in FileRow /\ file[r] \in fileIds
    BY <1>0, <1>5 DEF HeadObject, Handled, Completing
  <2>2. MarkReady(entity[r]) \in FileRow
    BY <2>1 DEF MarkReady, FileRow
  <2>3. CASE entity' = [entity EXCEPT ![r] = MarkReady(@)] /\ Goto(r, "bind") /\ UNCHANGED answer
    <3>1. entity' = [entity EXCEPT ![r] = MarkReady(entity[r])]
      BY <2>3 DEF TypeOK
    <3> QED  BY <1>3, <2>1, <2>2, <2>3, <3>1
  <2> QED  BY <1>2, <1>5, <2>3 DEF HeadObject, Answers
<1> QED  BY <1>4, <1>5

\* The row that attachFileToDomain updates is the one that the key names.
LEMMA BindsToRow ==
  ASSUME Shape, NEW r \in Requests, pc[r] = "bind", KeyMatches(r), TargetExists(r)
  PROVE  /\ BindTarget(r) = entity[r].target
         /\ body[r].bindTo = "avatar" =>
              BindTarget(r) \in UserIds /\ users[BindTarget(r)] \in UserRow
         /\ body[r].bindTo = "product-image" =>
              BindTarget(r) \in Products /\ products[BindTarget(r)] # None
<1>1. body[r] \in Complete
  BY DEF Shape, HandlersInv, Handled, Completing
<1>2. body[r].user \in UserIds /\ body[r].productId \in Products \cup {None}
  BY <1>1 DEF Complete
<1> QED
  BY <1>2 DEF KeyMatches, TargetExists, BindTarget, UserExists, Shape, TypeOK

\* attachFileToDomain.
LEMMA ShapeBind ==
  ASSUME Shape, NEW r \in Requests, Bind(r)
  PROVE  TypeOK' /\ Handled(r)' /\ RowsAreDrawn' /\ fileIds \subseteq fileIds'
<1> USE DEF fileVars, storeVars
<1>0. /\ TypeOK /\ Handled(r) /\ UNCHANGED <<body, changed, file, files, fileIds>>
      /\ body[r] \in Complete /\ body[r] \in Inputs /\ pc[r] = "bind"
      /\ entity[r] \in FileRow /\ file[r] \in fileIds
  BY DEF Shape, HandlersInv, Handled, Bind, Completing
<1>1. RowsAreDrawn'
  BY <1>0 DEF Shape, RowsAreDrawn
<1>2. CASE /\ \E what \in Answers : Finish(r, what)
           /\ UNCHANGED <<entity, users, products, bound>>
  <2>1. pc'[r] = "done" /\ TypeOK'
    BY <1>0, <1>2 DEF Bind, Finish, Goto, TypeOK, Steps
  <2> QED  BY <1>0, <1>1, <2>1, HandledDone
<1>3. CASE /\ KeyMatches(r) /\ TargetExists(r) /\ FileExists(file[r])
           /\ Goto(r, "saveFile") /\ UNCHANGED answer
  <2> DEFINE t == BindTarget(r)
  <2>1. /\ t \in UserIds \cup Products /\ file[r] \in FileIds
        /\ body[r].bindTo = "avatar" => t \in UserIds /\ users[t] \in UserRow
        /\ body[r].bindTo = "product-image" => t \in Products /\ products[t] # None
    BY <1>0, <1>3, BindsToRow DEF FileRow, FileExists
  <2>2. entity' = [entity EXCEPT ![r] = [entity[r] EXCEPT !.entityId = t]]
    BY <1>0, <1>3 DEF Bind, TypeOK
  <2>3. [entity[r] EXCEPT !.entityId = t] \in FileRow
    BY <1>0, <2>1 DEF FileRow
  <2>4. users' \in [UserIds -> UserRow \cup {None}]
    <3>1. CASE users' = [users EXCEPT ![t].avatarFileId = file[r]] /\ body[r].bindTo = "avatar"
      <4>1. [users[t] EXCEPT !.avatarFileId = file[r]] \in UserRow
        BY <2>1, <3>1 DEF UserRow
      <4> QED  BY <1>0, <2>1, <3>1, <4>1 DEF TypeOK
    <3>2. CASE UNCHANGED users
      BY <1>0, <3>2 DEF TypeOK
    <3> QED  BY <1>3, <3>1, <3>2 DEF Bind
  <2>5. products' \in [Products -> [imageFileId : FileIds \cup {None}] \cup {None}]
    <3>1. CASE products' = [products EXCEPT ![t].imageFileId = file[r]] /\ body[r].bindTo = "product-image"
      <4>1. [products[t] EXCEPT !.imageFileId = file[r]] \in [imageFileId : FileIds \cup {None}]
        BY <1>0, <2>1, <3>1 DEF TypeOK
      <4> QED  BY <1>0, <2>1, <3>1, <4>1 DEF TypeOK
    <3>2. CASE UNCHANGED products
      BY <1>0, <3>2 DEF TypeOK
    <3> QED  BY <1>3, <3>1, <3>2 DEF Bind
  <2>6. entity'[r] \in FileRow /\ entity' \in [Requests -> UserRow \cup FileRow \cup {None}]
    BY <1>0, <2>2, <2>3 DEF TypeOK
  <2>7. pc'[r] = "saveFile" /\ pc' \in [Requests -> Steps] /\ answer'[r] = "none"
    BY <1>0, <1>3 DEF Goto, TypeOK, Steps, Handled
  <2>8. bound' \subseteq fileIds'
    BY <1>0, <1>3 DEF Bind, TypeOK
  <2>9. TypeOK'
    BY <1>0, <1>3, <2>4, <2>5, <2>6, <2>7, <2>8 DEF Bind, TypeOK
  <2>10. Handled(r)'
    BY <1>0, <2>6, <2>7 DEF Handled, UserSaves, FileSaves, Completing
  <2> QED  BY <1>0, <1>1, <2>9, <2>10
<1> QED  BY <1>2, <1>3 DEF Bind, Answers

\* save(file): the columns that differ from the row are among the two that
\* completeUpload sets, because all copies agree on the others.
LEMMA ShapeSave ==
  ASSUME Shape, CopiesAgree, NEW r \in Requests,
         SelectFile(r) \/ UpdateFile(r) \/ ReinsertFile(r)
  PROVE  TypeOK' /\ Handled(r)' /\ RowsAreDrawn' /\ fileIds \subseteq fileIds'
<1> USE DEF fileVars, storeVars, userVars
<1>0. /\ TypeOK /\ Handled(r) /\ RowsAreDrawn /\ UNCHANGED <<body, entity, file, fileIds>>
      /\ body[r] \in Complete /\ body[r] \in Inputs /\ pc[r] \in FileSaves
      /\ entity[r] \in FileRow /\ file[r] \in fileIds /\ file[r] \in FileIds
  BY DEF Shape, HandlersInv, Handled, SelectFile, UpdateFile, ReinsertFile,
     Completing, FileSaves, TypeOK
<1>1. CASE SelectFile(r)
  <2>1. CASE FileExists(file[r])
    <3> DEFINE c == {x \in DOMAIN entity[r] : entity[r][x] # files[file[r]][x]}
    <3>1. SameFile(entity[r], files[file[r]])
      BY <1>0, <2>1, MemoryIsCopy DEF CopiesAgree, FileExists, Completing
    <3>2. c \subseteq {"entityId", "status"}
      BY <1>0, <3>1, Columns DEF SameFile
    <3>3. /\ changed' = [changed EXCEPT ![r] = c]
          /\ pc' = [pc EXCEPT ![r] = "updateFile"] /\ UNCHANGED answer
      BY <1>1, <2>1 DEF SelectFile, Goto
    <3> HIDE DEF c
    <3>4. changed' \in [Requests -> SUBSET {"email", "avatarFileId", "entityId", "status"}]
      BY <1>0, <3>2, <3>3 DEF TypeOK
    <3>5. TypeOK'
      BY <1>0, <1>1, <3>3, <3>4 DEF SelectFile, TypeOK, Steps
    <3>6. pc'[r] = "updateFile" /\ answer'[r] = "none" /\ changed'[r] \subseteq {"entityId", "status"}
      BY <1>0, <3>2, <3>3 DEF TypeOK, Handled, FileSaves
    <3>7. Handled(r)'
      BY <1>0, <3>6 DEF Handled, UserSaves, FileSaves, Completing
    <3> QED  BY <1>0, <1>1, <3>5, <3>7 DEF SelectFile, RowsAreDrawn
  <2>2. CASE ~FileExists(file[r])
    <3>1. pc' = [pc EXCEPT ![r] = "reinsertFile"] /\ UNCHANGED <<changed, answer>>
      BY <1>1, <2>2 DEF SelectFile, Goto
    <3>2. TypeOK'
      BY <1>0, <1>1, <3>1 DEF SelectFile, TypeOK, Steps
    <3>3. pc'[r] = "reinsertFile" /\ answer'[r] = "none"
      BY <1>0, <3>1 DEF TypeOK, Handled, FileSaves
    <3>4. Handled(r)'
      BY <1>0, <3>3 DEF Handled, UserSaves, FileSaves, Completing
    <3> QED  BY <1>0, <1>1, <3>2, <3>4 DEF SelectFile, RowsAreDrawn
  <2> QED  BY <2>1, <2>2
<1>2. CASE UpdateFile(r) \/ ReinsertFile(r)
  <2>1. \/ UNCHANGED files
        \/ \E row \in FileRow : files' = [files EXCEPT ![file[r]] = row]
    <3>1. CASE UpdateFile(r) /\ FileExists(file[r])
      <4>1. files[file[r]] \in FileRow /\ changed[r] \subseteq {"entityId", "status"}
        BY <1>0, <3>1 DEF UpdateFile, FileExists, TypeOK, Handled
      <4>2. Patch(r, files[file[r]]) \in FileRow
        BY <1>0, <4>1, PatchFile
      <4> QED  BY <1>0, <3>1, <4>2 DEF UpdateFile, TypeOK
    <3> QED  BY <1>0, <1>2, <3>1 DEF UpdateFile, ReinsertFile
  <2>2. files' \in [FileIds -> FileRow \cup {None}] /\ RowsAreDrawn'
    BY <1>0, <2>1 DEF TypeOK, RowsAreDrawn
  <2>3. pc'[r] = "done" /\ TypeOK'
    BY <1>0, <1>2, <2>2 DEF UpdateFile, ReinsertFile, Finish, Goto, TypeOK, Steps, Answers
  <2> QED  BY <1>0, <2>2, <2>3, HandledDone
<1> QED  BY <1>1, <1>2

\* A deletion changes no request; it removes rows and the links to them.
LEMMA ShapeDelete ==
  ASSUME Shape, (\E u \in UserIds : DeleteUser(u)) \/ (\E p \in Products : DeleteProduct(p))
  PROVE  TypeOK' /\ RowsAreDrawn' /\ UNCHANGED <<requestVars, file, fileIds>>
<1> USE DEF fileVars, storeVars, userVars
<1>0. TypeOK /\ RowsAreDrawn /\ deletes' \in 0..MaxDeletes
  BY LimitsAssumption DEF Shape, TypeOK, DeleteUser, DeleteProduct
<1>1. ASSUME NEW u \in UserIds, DeleteUser(u)
      PROVE  TypeOK' /\ RowsAreDrawn' /\ UNCHANGED <<requestVars, file, fileIds>>
  <2> DEFINE gone == {f \in Existing : files[f].owner = u}
  <2>1. /\ users' = [v \in UserIds |->
             IF v = u \/ users[v] = None THEN None
             ELSE [users[v] EXCEPT !.avatarFileId = Unlink(@, gone)]]
        /\ products' = [p \in Products |->
             IF products[p] = None THEN None
             ELSE [imageFileId |-> Unlink(products[p].imageFileId, gone)]]
        /\ files' = [f \in FileIds |-> IF f \in gone THEN None ELSE files[f]]
    BY <1>1 DEF DeleteUser
  <2> HIDE DEF gone
  <2>2. users' \in [UserIds -> UserRow \cup {None}]
    <3>1. ASSUME NEW v \in UserIds, users[v] # None
          PROVE  [users[v] EXCEPT !.avatarFileId = Unlink(@, gone)] \in UserRow
      <4>1. users[v] \in UserRow
        BY <1>0, <3>1 DEF TypeOK
      <4>2. Unlink(users[v].avatarFileId, gone) \in FileIds \cup {None}
        BY <4>1 DEF Unlink, UserRow
      <4> QED  BY <4>1, <4>2 DEF UserRow
    <3> QED  BY <2>1, <3>1
  <2>3. products' \in [Products -> [imageFileId : FileIds \cup {None}] \cup {None}]
    <3>1. ASSUME NEW p \in Products, products[p] # None
          PROVE  [imageFileId |-> Unlink(products[p].imageFileId, gone)]
                   \in [imageFileId : FileIds \cup {None}]
      <4>1. products[p].imageFileId \in FileIds \cup {None}
        BY <1>0, <3>1 DEF TypeOK
      <4> QED  BY <4>1 DEF Unlink
    <3> QED  BY <2>1, <3>1
  <2>4. files' \in [FileIds -> FileRow \cup {None}] /\ RowsAreDrawn'
    BY <1>0, <1>1, <2>1 DEF TypeOK, RowsAreDrawn, DeleteUser
  <2> QED
    BY <1>0, <1>1, <2>2, <2>3, <2>4 DEF DeleteUser, TypeOK, requestVars
<1>2. ASSUME NEW p \in Products, DeleteProduct(p)
      PROVE  TypeOK' /\ RowsAreDrawn' /\ UNCHANGED <<requestVars, file, fileIds>>
  BY <1>0, <1>2 DEF DeleteProduct, TypeOK, RowsAreDrawn, requestVars
<1> QED  BY <1>1, <1>2

\* Every step keeps the types and what the handlers rely on.
LEMMA ShapeStep ==
  ASSUME Shape, CopiesAgree, [Next]_vars
  PROVE  Shape' /\ fileIds \subseteq fileIds'
<1> USE DEF fileVars, storeVars, userVars
<1>1. ASSUME NEW r \in Requests, RequestStep(r)
      PROVE  TypeOK' /\ Handled(r)' /\ RowsAreDrawn' /\ fileIds \subseteq fileIds'
  <2>1. CASE \E b \in Inputs : Start(r, b)
    BY <2>1, ShapeStart DEF Start, Shape, RowsAreDrawn
  <2>2. CASE UserStep(r)
    BY <2>2, ShapeUserReads, ShapeUserWrites DEF UserStep, Shape, RowsAreDrawn
  <2>3. CASE FileStep(r)
    BY <2>3, ShapePresign, ShapeFind, ShapeBind, ShapeSave DEF FileStep
  <2>4. CASE Abort(r)
    <3>1. pc'[r] = "done" /\ TypeOK'
      BY <2>4 DEF Abort, Finish, Goto, Shape, TypeOK, Steps, Answers
    <3>2. body'[r] \in Inputs
      BY <2>4 DEF Abort, Shape, HandlersInv, Handled
    <3> QED  BY <2>4, <3>1, <3>2, HandledDone DEF Abort, Shape, RowsAreDrawn
  <2> QED  BY <1>1, <2>1, <2>2, <2>3, <2>4 DEF RequestStep
<1>2. ASSUME NEW r \in Requests, RequestStep(r)
      PROVE  Shape' /\ fileIds \subseteq fileIds'
  <2>1. \A q \in Requests : q # r => Handled(q)'
    BY <1>1, <1>2, OthersStay, HandledStays DEF Shape, HandlersInv
  <2> QED  BY <1>1, <1>2, <2>1 DEF Shape, HandlersInv
<1>3. CASE UNCHANGED <<requestVars, file, fileIds>> /\ TypeOK' /\ RowsAreDrawn'
  <2>1. \A q \in Requests : Still(q)
    BY <1>3 DEF Still, requestVars
  <2>2. \A q \in Requests : Handled(q)'
    BY <1>3, <2>1, HandledStays DEF Shape, HandlersInv
  <2> QED  BY <1>3, <2>2 DEF Shape, HandlersInv
<1>4. CASE \E f \in FileIds : PutObject(f) \/ ExpireUrl(f)
  <2>1. TypeOK' /\ RowsAreDrawn' /\ UNCHANGED <<requestVars, file, fileIds>>
    BY <1>4 DEF PutObject, ExpireUrl, Shape, TypeOK, RowsAreDrawn, requestVars
  <2> QED  BY <1>3, <2>1
<1>5. CASE UNCHANGED vars
  <2>1. TypeOK' /\ RowsAreDrawn' /\ UNCHANGED <<requestVars, file, fileIds>>
    BY <1>5 DEF vars, Shape, TypeOK, RowsAreDrawn, requestVars
  <2> QED  BY <1>3, <2>1
<1>6. CASE (\E u \in UserIds : DeleteUser(u)) \/ (\E p \in Products : DeleteProduct(p))
  BY <1>3, <1>6, ShapeDelete
<1> QED  BY <1>2, <1>4, <1>5, <1>6 DEF Next, Idle, RequestStep

-----------------------------------------------------------------------------
(* How rows and copies of files change.                                    *)

\* Objects stay in the bucket, and the histories only grow.
LEMMA StoresGrow ==
  ASSUME [Next]_vars
  PROVE  objects \subseteq objects' /\ bound \subseteq bound' /\ patched \subseteq patched'
<1> USE DEF fileVars, storeVars, userVars
<1>1. ASSUME NEW r \in Requests, RequestStep(r)
      PROVE  objects \subseteq objects' /\ bound \subseteq bound' /\ patched \subseteq patched'
  <2>1. CASE (\E b \in Inputs : Start(r, b)) \/ Abort(r)
    BY <2>1 DEF Start, Abort
  <2>2. CASE UserStep(r)
    BY <2>2 DEF UserStep, FindByEmail, InsertUser, Preload, SelectUser, UpdateUser, ReinsertUser,
       MarkPatched
  <2>3. CASE FileStep(r)
    BY <2>3 DEF FileStep, CheckProduct, InsertFile, Sign, FindFile, HeadObject, Bind, SelectFile,
       UpdateFile, ReinsertFile
  <2> QED  BY <1>1, <2>1, <2>2, <2>3 DEF RequestStep
<1> QED
  BY <1>1 DEF Next, Idle, vars, RequestStep, PutObject, ExpireUrl, DeleteUser, DeleteProduct

\* Request r inserts a new record for file f.
Inserts(r, f) ==
  /\ pc[r] = "insertFile" /\ f \notin fileIds
  /\ files'[f] = NewFile(body[r]) /\ UNCHANGED users

\* Request r saves what it holds of file f.
Saves(r, f) ==
  /\ file[r] = f /\ UNCHANGED <<users, products>>
  /\ \/ pc[r] = "updateFile" /\ files[f] # None /\ files'[f] = Patch(r, files[f])
     \/ pc[r] = "reinsertFile" /\ files[f] = None /\ files'[f] = entity[r]

\* A record of files is inserted, saved by a completion, or deleted with its
\* owner.
LEMMA RowChanges ==
  ASSUME Shape, [Next]_vars, NEW f \in FileIds, files'[f] # files[f]
  PROVE  \/ \E r \in Requests : Inserts(r, f)
         \/ \E r \in Requests : Saves(r, f)
         \/ files'[f] = None /\ \E u \in UserIds : DeleteUser(u)
<1> USE DEF fileVars, storeVars, userVars
<1>0. files \in [FileIds -> FileRow \cup {None}]
  BY DEF Shape, TypeOK
<1>1. ASSUME NEW r \in Requests, RequestStep(r)
      PROVE  Inserts(r, f) \/ Saves(r, f)
  <2>1. CASE (\E b \in Inputs : Start(r, b)) \/ Abort(r) \/ UserStep(r)
    BY <2>1 DEF Start, Abort, UserStep
  <2>2. CASE CheckProduct(r) \/ Sign(r) \/ FindFile(r) \/ HeadObject(r) \/ Bind(r) \/ SelectFile(r)
    BY <2>2 DEF CheckProduct, Sign, FindFile, HeadObject, Bind, SelectFile
  <2>3. CASE InsertFile(r)
    <3>1. PICK g \in FileIds \ fileIds : files' = [files EXCEPT ![g] = NewFile(body[r])]
      BY <2>3 DEF InsertFile
    <3> QED  BY <1>0, <2>3, <3>1 DEF InsertFile, Inserts
  <2>4. CASE UpdateFile(r)
    BY <1>0, <2>4 DEF UpdateFile, Saves, FileExists
  <2>5. CASE ReinsertFile(r)
    BY <1>0, <2>5 DEF ReinsertFile, Saves, FileExists
  <2> QED  BY <1>1, <2>1, <2>2, <2>3, <2>4, <2>5 DEF RequestStep, FileStep
<1>2. ASSUME NEW u \in UserIds, DeleteUser(u)
      PROVE  files'[f] = None
  BY <1>0, <1>2 DEF DeleteUser
<1> QED
  BY <1>1, <1>2 DEF Next, Idle, vars, RequestStep, PutObject, ExpireUrl, DeleteProduct

\* What request q has done when it holds a copy after a step in which it moved.
Moves(q) ==
  /\ file'[q] = file[q] /\ body'[q] = body[q] /\ UNCHANGED <<files, objects>>
  /\ \/ /\ pc[q] = "findFile" /\ FileExists(file[q])
        /\ entity'[q] = files[file[q]]
        /\ pc'[q] = IF files[file[q]].status = "PENDING" THEN "headObject" ELSE "bind"
     \/ /\ pc[q] = "headObject" /\ pc'[q] = "bind" /\ file[q] \in objects
        /\ entity'[q] = MarkReady(entity[q])
     \/ /\ pc[q] = "bind" /\ pc'[q] = "saveFile"
        /\ KeyMatches(q) /\ TargetExists(q) /\ FileExists(file[q])
        /\ entity'[q] = [entity[q] EXCEPT !.entityId = BindTarget(q)]
        /\ file[q] \in bound'
     \/ /\ pc[q] = "saveFile" /\ pc'[q] = "updateFile" /\ FileExists(file[q])
        /\ entity'[q] = entity[q]
        /\ changed'[q] = {c \in DOMAIN entity[q] : entity[q][c] # files[file[q]][c]}
     \/ /\ pc[q] = "saveFile" /\ pc'[q] = "reinsertFile"
        /\ entity'[q] = entity[q]

\* A handler that holds a copy has held it before, or has moved.
LEMMA MemoryChanges ==
  ASSUME Shape, [Next]_vars, NEW q \in Requests, pc'[q] \in Completing
  PROVE  Still(q) \/ Moves(q)
<1> USE DEF fileVars, storeVars, userVars
<1>0. TypeOK /\ Handled(q)
  BY DEF Shape, HandlersInv
<1>1. ASSUME NEW r \in Requests, RequestStep(r)
      PROVE  Still(q) \/ Moves(q)
  <2>1. CASE q # r
    BY <1>0, <1>1, <2>1, OthersStay
  <2>2. CASE q = r
    <3>1. CASE (\E b \in Inputs : Start(r, b)) \/ Abort(r)
      BY <1>0, <2>2, <3>1 DEF Start, Abort, Finish, Goto, TypeOK, Completing, FileSaves
    <3>2. CASE UserStep(r)
      BY <1>0, <2>2, <3>2 DEF UserStep, FindByEmail, InsertUser, Preload, SelectUser, UpdateUser,
         ReinsertUser, Finish, Goto, TypeOK, Completing, FileSaves
    <3>3. CASE CheckProduct(r) \/ InsertFile(r) \/ Sign(r) \/ UpdateFile(r) \/ ReinsertFile(r)
      BY <1>0, <2>2, <3>3 DEF CheckProduct, InsertFile, Sign, UpdateFile, ReinsertFile,
         Finish, Goto, TypeOK, Completing, FileSaves
    <3>4. CASE FindFile(r)
      BY <1>0, <2>2, <3>4 DEF FindFile, Finish, Goto, TypeOK, Completing, FileSaves, Moves,
         FileExists, Handled
    <3>5. CASE HeadObject(r)
      BY <1>0, <2>2, <3>5 DEF HeadObject, ObjectExists, Finish, Goto, TypeOK, Completing,
         FileSaves, Moves
    <3>6. CASE Bind(r)
      BY <1>0, <2>2, <3>6 DEF Bind, Finish, Goto, TypeOK, Completing, FileSaves, Moves
    <3>7. CASE SelectFile(r)
      BY <1>0, <2>2, <3>7 DEF SelectFile, Goto, TypeOK, Moves
    <3> QED
      BY <1>1, <3>1, <3>2, <3>3, <3>4, <3>5, <3>6, <3>7 DEF RequestStep, FileStep
  <2> QED  BY <2>1, <2>2
<1>2. CASE UNCHANGED <<requestVars, file>>
  BY <1>2 DEF Still, requestVars
<1> QED
  BY <1>1, <1>2 DEF Next, Idle, vars, RequestStep, PutObject, ExpireUrl, DeleteUser, DeleteProduct

\* Record a says of file f what a copy of it has said: it differs at most in
\* what completeUpload sets, and is READY only if that one was, or if the
\* object has been found.
ComesFrom(a, f) ==
  \E b \in Copies(f) :
    SameFile(a, b) /\ (a.status = "READY" => b.status = "READY" \/ f \in objects)

\* The rows of the next state come from copies, or are new.
LEMMA RowsCome ==
  ASSUME Shape, CopiesAgree, [Next]_vars, NEW f \in FileIds, files'[f] # None
  PROVE  \/ f \in fileIds /\ ComesFrom(files'[f], f)
         \/ f \notin fileIds /\ files'[f].status = "PENDING"
<1>1. CASE files'[f] = files[f]
  BY <1>1 DEF ComesFrom, SameFile, Copies, Shape, RowsAreDrawn
<1>2. ASSUME NEW r \in Requests, Inserts(r, f)
      PROVE  f \notin fileIds /\ files'[f].status = "PENDING"
  BY <1>2 DEF Inserts, NewFile
<1>3. ASSUME NEW r \in Requests, Saves(r, f)
      PROVE  f \in fileIds /\ ComesFrom(files'[f], f)
  <2>1. /\ pc[r] \in Completing /\ file[r] = f /\ f \in fileIds /\ entity[r] \in FileRow
        /\ pc[r] = "updateFile" => changed[r] \subseteq {"entityId", "status"}
    BY <1>3 DEF Saves, Completing, FileSaves, Shape, HandlersInv, Handled
  <2>2. entity[r] \in Copies(f) /\ (files[f] # None => files[f] \in Copies(f))
    BY <2>1, MemoryIsCopy
  <2>3. CASE pc[r] = "updateFile"
    <3>1. files[f] \in FileRow /\ files'[f] = Patch(r, files[f])
      BY <1>3, <2>3 DEF Saves, Shape, TypeOK
    <3>2. /\ SameFile(files'[f], files[f])
          /\ files'[f].status = entity[r].status \/ files'[f].status = files[f].status
      BY <2>1, <2>3, <3>1, PatchFile
    <3>3. CASE files'[f].status = files[f].status
      BY <2>1, <2>2, <3>1, <3>2, <3>3 DEF ComesFrom
    <3>4. CASE files'[f].status = entity[r].status
      <4>1. SameFile(files[f], entity[r])
        BY <2>2, <3>1 DEF CopiesAgree
      <4>2. SameFile(files'[f], entity[r])
        BY <3>2, <4>1 DEF SameFile
      <4> QED  BY <2>1, <2>2, <3>4, <4>2 DEF ComesFrom
    <3> QED  BY <3>2, <3>3, <3>4
  <2>4. CASE pc[r] = "reinsertFile"
    BY <1>3, <2>1, <2>2, <2>4 DEF Saves, ComesFrom, SameFile
  <2> QED  BY <1>3, <2>3, <2>4 DEF Saves
<1> QED  BY <1>1, <1>2, <1>3, RowChanges

\* So do the copies in memory.
LEMMA MemoryComes ==
  ASSUME Shape, [Next]_vars, NEW q \in Requests, pc'[q] \in Completing
  PROVE  file'[q] \in fileIds /\ ComesFrom(entity'[q], file'[q])
<1>1. CASE Still(q)
  <2>1. pc[q] \in Completing /\ file[q] \in fileIds
    BY <1>1 DEF Still, Shape, HandlersInv, Handled
  <2> QED  BY <1>1, <2>1, MemoryIsCopy DEF Still, ComesFrom, SameFile
<1>2. CASE Moves(q) /\ pc[q] = "findFile"
  <2>1. FileExists(file[q]) /\ entity'[q] = files[file[q]] /\ file'[q] = file[q]
    BY <1>2 DEF Moves
  <2>2. files[file[q]] \in Copies(file[q]) /\ file[q] \in fileIds
    BY <2>1 DEF FileExists, Copies, Shape, RowsAreDrawn
  <2> QED  BY <2>1, <2>2 DEF ComesFrom, SameFile
<1>3. CASE Moves(q) /\ pc[q] \in Completing
  <2>1. entity[q] \in Copies(file[q]) /\ file[q] \in fileIds /\ entity[q] \in FileRow
    BY <1>3, MemoryIsCopy DEF Shape, HandlersInv, Handled
  <2>2. /\ SameFile(entity'[q], entity[q])
        /\ entity'[q].status = entity[q].status \/ file[q] \in objects
    BY <1>3, <2>1 DEF Moves, SameFile, MarkReady, FileRow, Completing, FileSaves
  <2> QED  BY <1>3, <2>1, <2>2 DEF Moves, ComesFrom
<1> QED  BY <1>1, <1>2, <1>3, MemoryChanges DEF Moves, Completing, FileSaves

\* A copy of the next state is a row of the next state or in memory then.
LEMMA NextCopies ==
  ASSUME NEW f \in FileIds, NEW a \in Copies(f)'
  PROVE  \/ a = files'[f] /\ files'[f] # None
         \/ \E q \in Requests : pc'[q] \in Completing /\ file'[q] = f /\ a = entity'[q]
BY DEF Copies

\* All copies of a file that had been drawn come from copies of it; a new file
\* has one copy, which is pending.
LEMMA CopiesCome ==
  ASSUME Shape, CopiesAgree, [Next]_vars, NEW f \in FileIds, NEW a \in Copies(f)'
  PROVE  \/ f \in fileIds /\ ComesFrom(a, f)
         \/ f \notin fileIds /\ a = files'[f] /\ a.status = "PENDING"
BY NextCopies, RowsCome, MemoryComes

\* The copies of a record go on agreeing, and READY is never without an object.
LEMMA CopiesStep ==
  ASSUME Shape, CopiesAgree, ReadyCopies, [Next]_vars
  PROVE  CopiesAgree' /\ ReadyCopies'
<1>1. ASSUME NEW f \in FileIds, NEW a \in Copies(f)', NEW b \in Copies(f)'
      PROVE  SameFile(a, b)
  <2>1. CASE f \in fileIds
    <3>1. ComesFrom(a, f) /\ ComesFrom(b, f)
      BY <2>1, CopiesCome
    <3>2. PICK c \in Copies(f) : SameFile(a, c)
      BY <3>1 DEF ComesFrom
    <3>3. PICK d \in Copies(f) : SameFile(b, d)
      BY <3>1 DEF ComesFrom
    <3>4. SameFile(c, d)
      BY DEF CopiesAgree
    <3> QED  BY <3>2, <3>3, <3>4 DEF SameFile
  <2>2. CASE f \notin fileIds
    BY <2>2, CopiesCome DEF SameFile
  <2> QED  BY <2>1, <2>2
<1>2. ASSUME NEW f \in FileIds, NEW a \in Copies(f)', a.status = "READY"
      PROVE  f \in objects'
  <2>1. ComesFrom(a, f)
    BY <1>2, CopiesCome
  <2> QED  BY <1>2, <2>1, StoresGrow DEF ComesFrom, ReadyCopies
<1> QED  BY <1>1, <1>2 DEF CopiesAgree, ReadyCopies, SameFile

\* An uploaded avatar of a user remains one.
LEMMA AvatarStays ==
  ASSUME Shape, CopiesAgree, [Next]_vars, NEW f \in FileIds, NEW u \in UserIds, IsAvatarOf(f, u)
  PROVE  IsAvatarOf(f, u)'
<1>1. f \in fileIds /\ f \in objects'
  BY StoresGrow DEF IsAvatarOf, Shape, TypeOK
<1>2. ASSUME NEW a \in Copies(f)'
      PROVE  a.kind = "avatar" /\ a.target = u
  BY <1>1, <1>2, CopiesCome DEF ComesFrom, SameFile, IsAvatarOf
<1> QED  BY <1>1, <1>2 DEF IsAvatarOf

-----------------------------------------------------------------------------
(* completeUpload saves what is ready and bound.                           *)

\* What a completion writes is ready and bound, whether it writes the whole
\* record or only the columns that had changed.
LEMMA WritesReady ==
  ASSUME Shape, CopiesAgree, SavesInv, NEW r \in Requests, NEW f \in FileIds, Saves(r, f)
  PROVE  /\ f \in fileIds /\ f \in bound
         /\ files'[f].status = "READY" /\ files'[f].entityId = files'[f].target
<1>1. /\ pc[r] \in FileSaves /\ file[r] = f /\ f \in fileIds /\ entity[r] \in FileRow
      /\ pc[r] = "updateFile" => changed[r] \subseteq {"entityId", "status"}
  BY DEF Saves, Completing, FileSaves, Shape, HandlersInv, Handled
<1>2. /\ entity[r].status = "READY" /\ f \in bound /\ entity[r].entityId = entity[r].target
      /\ pc[r] = "updateFile" /\ files[f] # None =>
           /\ "status" \in changed[r] \/ files[f].status = "READY"
           /\ "entityId" \in changed[r] \/ files[f].entityId = files[f].target
  BY <1>1 DEF SavesInv, Saved
<1>3. CASE pc[r] = "updateFile"
  <2>1. files[f] \in FileRow /\ files[f] # None /\ files'[f] = Patch(r, files[f])
    BY <1>3 DEF Saves, Shape, TypeOK
  <2>2. entity[r].target = files[f].target
    BY <1>1, <2>1, MemoryIsCopy DEF CopiesAgree, SameFile, Completing
  <2>3. /\ files'[f].target = files[f].target
        /\ files'[f].status = IF "status" \in changed[r] THEN entity[r].status ELSE files[f].status
        /\ files'[f].entityId =
             IF "entityId" \in changed[r] THEN entity[r].entityId ELSE files[f].entityId
    BY <1>1, <1>3, <2>1, PatchFile DEF SameFile
  <2> QED  BY <1>1, <1>2, <1>3, <2>1, <2>2, <2>3
<1>4. CASE pc[r] = "reinsertFile"
  BY <1>1, <1>2, <1>4 DEF Saves
<1> QED  BY <1>3, <1>4 DEF Saves

\* So the record of a file that was drawn is as it was, has gone, or is ready
\* and bound.
LEMMA DrawnRows ==
  ASSUME Shape, CopiesAgree, SavesInv, [Next]_vars, NEW f \in FileIds, files'[f] # None
  PROVE  \/ files'[f] = files[f]
         \/ f \notin fileIds /\ files'[f].status = "PENDING"
         \/ /\ f \in fileIds /\ f \in bound'
            /\ files'[f].status = "READY" /\ files'[f].entityId = files'[f].target
<1>1. ASSUME NEW r \in Requests, Inserts(r, f)
      PROVE  f \notin fileIds /\ files'[f].status = "PENDING"
  BY <1>1 DEF Inserts, NewFile
<1>2. ASSUME NEW r \in Requests, Saves(r, f)
      PROVE  /\ f \in fileIds /\ f \in bound'
             /\ files'[f].status = "READY" /\ files'[f].entityId = files'[f].target
  BY <1>2, WritesReady, StoresGrow
<1> QED  BY <1>1, <1>2, RowChanges

\* What is saved remains ready and bound while others write.
LEMMA SavesStep ==
  ASSUME Shape, CopiesAgree, SavesInv, ReadyFilesWereBound, [Next]_vars
  PROVE  SavesInv' /\ ReadyFilesWereBound'
<1>1. ASSUME NEW q \in Requests PROVE Saved(q)'
  <2>1. CASE pc'[q] \notin Completing
    BY <2>1 DEF Saved, Completing, FileSaves
  <2>2. CASE Still(q) /\ pc'[q] \in Completing
    <3>1. Saved(q) /\ file[q] \in fileIds /\ file[q] \in FileIds
      BY <2>2 DEF SavesInv, Still, Shape, HandlersInv, Handled, TypeOK
    <3>2. files'[file[q]] # None =>
            \/ files'[file[q]] = files[file[q]]
            \/ /\ files'[file[q]].status = "READY"
               /\ files'[file[q]].entityId = files'[file[q]].target
      BY <3>1, DrawnRows
    <3>3. bound \subseteq bound'
      BY StoresGrow
    <3> QED  BY <2>2, <3>1, <3>2, <3>3 DEF Saved, Still, FileSaves
  <2>3. CASE Moves(q) /\ pc'[q] \in Completing
    <3>1. Saved(q) /\ TypeOK /\ Handled(q) /\ bound \subseteq bound'
      BY StoresGrow DEF SavesInv, Shape, HandlersInv
    <3>2. CASE pc[q] = "findFile"
      <4>1. files[file[q]] \in FileRow
        BY <2>3, <3>1, <3>2 DEF Moves, FileExists, TypeOK
      <4> QED  BY <2>3, <3>2, <4>1 DEF Moves, Saved, FileSaves, FileRow
    <3>3. CASE pc[q] = "headObject"
      <4>1. entity[q] \in FileRow
        BY <3>1, <3>3 DEF Handled, Completing
      <4> QED  BY <2>3, <3>3, <4>1 DEF Moves, Saved, FileSaves, FileRow, MarkReady
    <3>4. CASE pc[q] = "bind"
      <4>1. entity[q] \in FileRow
        BY <3>1, <3>4 DEF Handled, Completing
      <4>2. entity[q].status = "READY"
        BY <3>1, <3>4 DEF Saved
      <4>3. BindTarget(q) = entity[q].target
        BY <2>3, <3>4, BindsToRow DEF Moves
      <4> QED  BY <2>3, <3>4, <4>1, <4>2, <4>3 DEF Moves, Saved, FileSaves, FileRow
    <3>5. CASE pc[q] = "saveFile"
      <4>1. /\ entity[q] \in FileRow /\ entity[q].status = "READY" /\ file[q] \in bound
            /\ entity[q].entityId = entity[q].target
        BY <3>1, <3>5 DEF Handled, Saved, Completing, FileSaves
      <4>2. CASE pc'[q] = "reinsertFile"
        BY <2>3, <3>1, <3>5, <4>1, <4>2 DEF Moves, Saved, FileSaves
      <4>3. CASE pc'[q] = "updateFile"
        <5>1. /\ FileExists(file[q]) /\ UNCHANGED files
              /\ entity'[q] = entity[q] /\ file'[q] = file[q]
              /\ changed'[q] = {c \in DOMAIN entity[q] : entity[q][c] # files[file[q]][c]}
          BY <2>3, <3>5, <4>3 DEF Moves
        <5>2. files[file[q]].target = entity[q].target
          BY <3>5, <5>1, MemoryIsCopy
          DEF CopiesAgree, SameFile, FileExists, Completing, FileSaves
        <5>3. DOMAIN entity[q] = {"owner", "kind", "target", "entityId", "status"}
          BY <4>1, Columns
        <5>4. /\ "status" \in changed'[q] \/ files[file[q]].status = "READY"
              /\ "entityId" \in changed'[q] \/ files[file[q]].entityId = files[file[q]].target
          BY <4>1, <5>1, <5>2, <5>3
        <5> QED  BY <3>1, <4>1, <4>3, <5>1, <5>4 DEF Saved, FileSaves
      <4> QED  BY <2>3, <3>5, <4>2, <4>3 DEF Moves
    <3> QED  BY <2>3, <3>2, <3>3, <3>4, <3>5 DEF Moves
  <2> QED  BY <2>1, <2>2, <2>3, MemoryChanges
<1>2. ReadyFilesWereBound'
  <2> SUFFICES ASSUME NEW f \in FileIds, files'[f] # None, files'[f].status = "READY"
               PROVE  f \in bound' /\ files'[f].entityId = files'[f].target
    BY DEF ReadyFilesWereBound, Ready, FileExists
  <2>1. CASE files'[f] = files[f]
    BY <2>1, StoresGrow DEF ReadyFilesWereBound, Ready, FileExists
  <2> QED  BY <2>1, DrawnRows
<1> QED  BY <1>1, <1>2 DEF SavesInv

\* A completion that has succeeded stays so; one that succeeds has just saved.
LEMMA CompletionsStep ==
  ASSUME Shape, CopiesAgree, SavesInv, CompletionsInv, [Next]_vars, Shape', fileIds \subseteq fileIds'
  PROVE  CompletionsInv'
<1> USE DEF fileVars, storeVars, userVars
<1> SUFFICES ASSUME NEW q \in Requests, answer'[q] = "ok", body'[q] \in Complete
             PROVE  /\ file'[q] \in fileIds'
                    /\ files'[file'[q]] # None => files'[file'[q]].status = "READY"
  BY DEF CompletionsInv, Completed
<1>0. TypeOK /\ Handled(q)
  BY DEF Shape, HandlersInv
<1>1. CASE Still(q)
  <2>1. Completed(q) /\ answer[q] = "ok" /\ body[q] \in Complete /\ file'[q] = file[q]
    BY <1>1 DEF Still, CompletionsInv
  <2>2. file[q] \in fileIds /\ file[q] \in FileIds
    BY <1>0, <2>1 DEF Completed, TypeOK
  <2> QED  BY <2>1, <2>2, DrawnRows DEF Completed
<1>2. ASSUME RequestStep(q)
      PROVE  /\ file'[q] \in fileIds'
             /\ files'[file'[q]] # None => files'[file'[q]].status = "READY"
  <2>1. answer[q] = "none"
    BY <1>0, <1>2 DEF Handled, RequestStep, Start, UserStep, FindByEmail, InsertUser, Preload,
       SelectUser, UpdateUser, ReinsertUser, FileStep, CheckProduct, InsertFile, Sign,
       FindFile, HeadObject, Bind, SelectFile, UpdateFile, ReinsertFile, Abort
  <2>2. CASE (\E b \in Inputs : Start(q, b)) \/ Abort(q)
    BY <1>0, <2>1, <2>2 DEF Start, Abort, Finish, Goto, TypeOK
  <2>3. CASE UserStep(q)
    <3>1. body'[q] \in SignUp \/ body'[q] \in Update
      BY <1>0, <2>3 DEF UserStep, FindByEmail, InsertUser, Preload,
         SelectUser, UpdateUser, ReinsertUser, Handled, UserSaves
    <3> QED  BY <3>1 DEF SignUp, Update, Complete
  <2>4. CASE CheckProduct(q) \/ InsertFile(q) \/ Sign(q)
    <3>1. body'[q] \in Presign
      BY <1>0, <2>4 DEF CheckProduct, InsertFile, Sign, Handled
    <3> QED  BY <3>1 DEF Presign, Complete
  <2>5. CASE FindFile(q) \/ HeadObject(q) \/ Bind(q) \/ SelectFile(q)
    BY <1>0, <2>1, <2>5 DEF FindFile, HeadObject, Bind, SelectFile, Finish, Goto, TypeOK
  <2>6. CASE UpdateFile(q) \/ ReinsertFile(q)
    <3>1. /\ file[q] \in fileIds /\ file[q] \in FileIds /\ file'[q] = file[q]
          /\ pc[q] \in {"updateFile", "reinsertFile"}
      BY <1>0, <2>6 DEF UpdateFile, ReinsertFile, Handled, Completing, FileSaves, TypeOK
    <3>2. CASE files'[file[q]] = None
      BY <3>1, <3>2
    <3>3. CASE files'[file[q]] # None
      <4>1. Saves(q, file[q])
        <5>1. CASE UpdateFile(q)
          BY <1>0, <3>1, <3>3, <5>1 DEF UpdateFile, Saves, FileExists, TypeOK
        <5>2. CASE ReinsertFile(q)
          <6>1. ~FileExists(file[q]) /\ files' = [files EXCEPT ![file[q]] = entity[q]]
            BY <1>0, <5>2, answer'[q] = "ok", <3>1
            DEF ReinsertFile, Finish, TypeOK
          <6> QED  BY <1>0, <3>1, <5>2, <6>1 DEF ReinsertFile, Saves, FileExists, TypeOK
        <5> QED  BY <2>6, <5>1, <5>2
      <4> QED  BY <3>1, <4>1, WritesReady
    <3> QED  BY <3>2, <3>3
  <2> QED  BY <1>2, <2>2, <2>3, <2>4, <2>5, <2>6 DEF RequestStep, FileStep
<1>3. ASSUME NEW r \in Requests, RequestStep(r), r # q PROVE Still(q)
  BY <1>0, <1>3, OthersStay
<1>4. CASE UNCHANGED <<requestVars, file>>
  BY <1>1, <1>4 DEF Still, requestVars
<1> QED
  BY <1>1, <1>2, <1>3, <1>4
  DEF Next, Idle, vars, RequestStep, PutObject, ExpireUrl, DeleteUser, DeleteProduct

-----------------------------------------------------------------------------
(* Users and the links to files.                                           *)

\* The email of row u is not touched.
EmailKept(u) == users'[u] = None \/ (users[u] # None /\ users'[u].email = users[u].email)

\* Request r creates user u.
CreatesUser(r, u) ==
  /\ \A v \in UserIds : v # u => users'[v] = users[v]
  /\ users'[u].avatarFileId = None /\ EmailFree(users'[u].email, None)

\* Request r writes row u in updateUser.
WritesUser(r, u) ==
  /\ pc[r] \in {"updateUser", "reinsertUser"} /\ body[r].user = u
  /\ \A v \in UserIds : v # u => users'[v] = users[v]
  /\ EmailFree(users'[u].email, u)
  /\ users'[u].avatarFileId # None => FileExists(users'[u].avatarFileId)
  /\ \/ users'[u].avatarFileId = entity[r].avatarFileId
     \/ users[u] # None /\ users'[u].avatarFileId = users[u].avatarFileId
  /\ "avatarFileId" \in DOMAIN body[r].set => u \in patched'
  /\ UNCHANGED <<files, objects>>

\* Request r makes its file the avatar of user u.
BindsAvatar(r, u) ==
  /\ pc[r] = "bind" /\ body[r].bindTo = "avatar" /\ BindTarget(r) = u
  /\ KeyMatches(r) /\ FileExists(file[r])
  /\ \A v \in UserIds : v # u => users'[v] = users[v]
  /\ users[u] # None /\ users'[u].email = users[u].email /\ users'[u].avatarFileId = file[r]
  /\ UNCHANGED <<files, objects>>

\* A row of users is created, updated, bound to an avatar, or changed by a deletion.
LEMMA UserChanges ==
  ASSUME Shape, [Next]_vars, users' # users
  PROVE  \/ \E r \in Requests : \E u \in UserIds :
              CreatesUser(r, u) \/ WritesUser(r, u) \/ BindsAvatar(r, u)
         \/ \E u \in UserIds : DeleteUser(u)
<1> USE DEF fileVars, storeVars, userVars
<1>0. TypeOK
  BY DEF Shape
<1>1. ASSUME NEW r \in Requests, RequestStep(r)
      PROVE  \E u \in UserIds : CreatesUser(r, u) \/ WritesUser(r, u) \/ BindsAvatar(r, u)
  <2>0. Handled(r)
    BY DEF Shape, HandlersInv
  <2>1. CASE InsertUser(r)
    <3>1. PICK u \in UserIds \ userIds :
            /\ EmailFree(body[r].email, None)
            /\ users' = [users EXCEPT ![u] = [email |-> body[r].email, avatarFileId |-> None]]
      BY <2>1 DEF InsertUser
    <3>2. /\ users'[u].email = body[r].email /\ users'[u].avatarFileId = None
          /\ \A v \in UserIds : v # u => users'[v] = users[v]
      BY <1>0, <3>1 DEF TypeOK
    <3> QED  BY <3>1, <3>2 DEF CreatesUser
  <2>2. CASE UpdateUser(r, Existing) /\ UNCHANGED <<files, objects>>
    <3> DEFINE u == body[r].user
               row == Patch(r, users[u])
    <3>1. /\ UserExists(u) /\ EmailFree(row.email, u) /\ AvatarExists(row, Existing)
          /\ users' = [users EXCEPT ![u] = row] /\ MarkPatched(r) /\ pc[r] = "updateUser"
      BY <2>2 DEF UpdateUser
    <3>2. u \in UserIds /\ users[u] \in UserRow /\ entity[r] \in UserRow
      BY <1>0, <2>0, <3>1 DEF UserExists, TypeOK, Handled, UserSaves
    <3>3. row.avatarFileId = entity[r].avatarFileId \/ row.avatarFileId = users[u].avatarFileId
      BY <3>2, PatchUser
    <3> HIDE DEF row
    <3>4. users'[u] = row /\ \A v \in UserIds : v # u => users'[v] = users[v]
      BY <1>0, <3>1, <3>2 DEF TypeOK
    <3>5. row.avatarFileId # None => FileExists(row.avatarFileId)
      BY <3>1 DEF AvatarExists, Existing, FileExists
    <3>6. "avatarFileId" \in DOMAIN body[r].set => u \in patched'
      BY <3>1 DEF MarkPatched
    <3> QED
      BY <2>2, <3>1, <3>2, <3>3, <3>4, <3>5, <3>6 DEF WritesUser, UserExists
  <2>3. CASE ReinsertUser(r, Existing) /\ UNCHANGED <<files, objects>>
    <3> DEFINE u == body[r].user
    <3>1. /\ EmailFree(entity[r].email, u) /\ AvatarExists(entity[r], Existing)
          /\ users' = [users EXCEPT ![u] = entity[r]] /\ MarkPatched(r) /\ pc[r] = "reinsertUser"
      BY <2>3 DEF ReinsertUser
    <3>2. u \in UserIds
      BY <2>0, <3>1 DEF Handled, UserSaves, Update
    <3>4. users'[u] = entity[r] /\ \A v \in UserIds : v # u => users'[v] = users[v]
      BY <1>0, <3>1, <3>2 DEF TypeOK
    <3>5. entity[r].avatarFileId # None => FileExists(entity[r].avatarFileId)
      BY <3>1 DEF AvatarExists, Existing, FileExists
    <3>6. "avatarFileId" \in DOMAIN body[r].set => u \in patched'
      BY <3>1 DEF MarkPatched
    <3> QED
      BY <2>3, <3>1, <3>2, <3>4, <3>5, <3>6 DEF WritesUser
  <2>4. CASE Bind(r)
    <3> DEFINE u == BindTarget(r)
    <3>1. /\ pc[r] = "bind" /\ KeyMatches(r) /\ TargetExists(r) /\ FileExists(file[r])
          /\ body[r].bindTo = "avatar" /\ users' = [users EXCEPT ![u].avatarFileId = file[r]]
          /\ UNCHANGED <<files, objects>>
      BY <2>4 DEF Bind
    <3>2. u \in UserIds /\ users[u] \in UserRow
      BY <3>1, BindsToRow
    <3>3. users'[u] = [users[u] EXCEPT !.avatarFileId = file[r]]
      BY <1>0, <3>1, <3>2 DEF TypeOK
    <3>4. users'[u].email = users[u].email /\ users'[u].avatarFileId = file[r]
      BY <3>2, <3>3 DEF UserRow
    <3>5. \A v \in UserIds : v # u => users'[v] = users[v]
      BY <1>0, <3>1, <3>2 DEF TypeOK
    <3> QED  BY <3>1, <3>2, <3>4, <3>5 DEF BindsAvatar
  <2>5. CASE (\E b \in Inputs : Start(r, b)) \/ Abort(r) \/ FindByEmail(r) \/ Preload(r) \/ SelectUser(r)
    BY <2>5 DEF Start, Abort, FindByEmail, Preload, SelectUser
  <2>6. CASE CheckProduct(r) \/ InsertFile(r) \/ Sign(r) \/ FindFile(r) \/ HeadObject(r)
             \/ SelectFile(r) \/ UpdateFile(r) \/ ReinsertFile(r)
    BY <2>6 DEF CheckProduct, InsertFile, Sign, FindFile, HeadObject, SelectFile, UpdateFile,
       ReinsertFile
  <2> QED
    BY <1>1, <2>1, <2>2, <2>3, <2>4, <2>5, <2>6 DEF RequestStep, UserStep, FileStep
<1> QED
  BY <1>1 DEF Next, Idle, vars, RequestStep, PutObject, ExpireUrl, DeleteProduct

\* A deletion leaves the other users with their emails, and with their avatars
\* unless those were files of the deleted user.
LEMMA DeletionKeeps ==
  ASSUME Shape, NEW w \in UserIds, DeleteUser(w), NEW u \in UserIds, users'[u] # None
  PROVE  /\ users[u] # None /\ users'[u].email = users[u].email
         /\ users'[u].avatarFileId # None =>
              LET f == users[u].avatarFileId IN
              /\ users'[u].avatarFileId = f
              /\ FileExists(f) => FileExists(f)' /\ files'[f] = files[f]
<1> DEFINE gone == {f \in Existing : files[f].owner = w}
<1>1. /\ users[u] # None
      /\ users'[u] = [users[u] EXCEPT !.avatarFileId = Unlink(@, gone)]
      /\ files' = [f \in FileIds |-> IF f \in gone THEN None ELSE files[f]]
  BY DEF DeleteUser
<1> HIDE DEF gone
<1>2. users[u] \in UserRow
  BY <1>1 DEF Shape, TypeOK
<1>3. users'[u].email = users[u].email /\ users'[u].avatarFileId = Unlink(users[u].avatarFileId, gone)
  BY <1>1, <1>2 DEF UserRow
<1>4. users'[u].avatarFileId # None =>
        users'[u].avatarFileId = users[u].avatarFileId /\ users[u].avatarFileId \notin gone
  BY <1>3 DEF Unlink
<1> QED  BY <1>1, <1>3, <1>4 DEF FileExists

\* The unique index keeps emails apart, whatever the handlers had read before.
LEMMA EmailsStep ==
  ASSUME Shape, OneUserPerEmail, [Next]_vars
  PROVE  OneUserPerEmail'
<1> SUFFICES ASSUME NEW u \in UserIds, NEW v \in UserIds, u # v,
                    users'[u] # None, users'[v] # None, users'[u].email = users'[v].email
             PROVE  FALSE
  BY DEF OneUserPerEmail, UserExists
<1>1. CASE EmailKept(u) /\ EmailKept(v)
  BY <1>1 DEF EmailKept, OneUserPerEmail, UserExists
<1>2. ASSUME NEW r \in Requests, NEW w \in UserIds, CreatesUser(r, w) \/ WritesUser(r, w)
      PROVE  FALSE
  <2>1. /\ \A x \in UserIds : x # w => users'[x] = users[x]
        /\ \A x \in UserIds : x # w /\ users'[x] # None => users'[x].email # users'[w].email
    BY <1>2 DEF CreatesUser, WritesUser, EmailFree, UserExists
  <2>2. CASE u # w /\ v # w
    BY <1>1, <2>1, <2>2 DEF EmailKept
  <2> QED  BY <2>1, <2>2
<1>3. ASSUME NEW r \in Requests, NEW w \in UserIds, BindsAvatar(r, w)
      PROVE  FALSE
  BY <1>1, <1>3 DEF EmailKept, BindsAvatar
<1>4. ASSUME NEW w \in UserIds, DeleteUser(w)
      PROVE  FALSE
  BY <1>1, <1>4, DeletionKeeps DEF EmailKept
<1>5. CASE users' = users
  BY <1>1, <1>5 DEF EmailKept
<1> QED  BY <1>2, <1>3, <1>4, <1>5, UserChanges

\* Only the deletion of a user removes a record, and none changes what it is for.
LEMMA RecordStays ==
  ASSUME Shape, [Next]_vars, NEW f, FileExists(f), ~\E u \in UserIds : DeleteUser(u)
  PROVE  FileExists(f)' /\ SameFile(files'[f], files[f])
<1>0. f \in FileIds /\ files[f] # None /\ files[f] \in FileRow /\ f \in fileIds
  BY DEF FileExists, Shape, TypeOK, RowsAreDrawn
<1>1. ASSUME NEW r \in Requests, Inserts(r, f) PROVE FALSE
  BY <1>0, <1>1 DEF Inserts
<1>2. ASSUME NEW r \in Requests, Saves(r, f)
      PROVE  files'[f] # None /\ SameFile(files'[f], files[f])
  <2>1. /\ pc[r] = "updateFile" /\ entity[r] \in FileRow
        /\ changed[r] \subseteq {"entityId", "status"} /\ files'[f] = Patch(r, files[f])
    BY <1>0, <1>2 DEF Saves, Shape, HandlersInv, Handled, Completing, FileSaves
  <2> QED  BY <1>0, <2>1, PatchFile
<1>3. CASE files'[f] = files[f]
  BY <1>0, <1>3 DEF FileExists, SameFile
<1> QED  BY <1>0, <1>1, <1>2, <1>3, RowChanges DEF FileExists

\* What updateUser holds in memory: the row as it was loaded, under the body.
LEMMA UserMemory ==
  ASSUME Shape, [Next]_vars, NEW q \in Requests, pc'[q] \in UserSaves,
         "avatarFileId" \notin DOMAIN body'[q].set
  PROVE  /\ body'[q] = body[q]
         /\ \/ pc[q] \in UserSaves /\ entity'[q] = entity[q]
            \/ LET u == body[q].user IN
               u \in UserIds /\ users[u] # None /\ entity'[q].avatarFileId = users[u].avatarFileId
<1> USE DEF fileVars, storeVars, userVars
<1>0. TypeOK /\ Handled(q)
  BY DEF Shape, HandlersInv
<1>1. CASE Still(q)
  BY <1>1 DEF Still
<1>2. CASE Preload(q)
  <2> DEFINE u == body[q].user
             e == [c \in DOMAIN users[u] |->
                     IF c \in DOMAIN body[q].set THEN body[q].set[c] ELSE users[u][c]]
  <2>1. /\ body'[q] = body[q] /\ UserExists(u)
        /\ entity' = [entity EXCEPT ![q] = e]
    BY <1>0, <1>2 DEF Preload, Finish, Goto, TypeOK, UserSaves
  <2>2. users[u] \in UserRow
    BY <1>0, <2>1 DEF UserExists, TypeOK
  <2>3. e.avatarFileId = users[u].avatarFileId
    BY <2>1, <2>2, Columns
  <2> HIDE DEF e
  <2>4. entity'[q] = e
    BY <1>0, <2>1 DEF TypeOK
  <2> QED  BY <2>1, <2>3, <2>4 DEF UserExists
<1>3. CASE SelectUser(q)
  BY <1>0, <1>3 DEF SelectUser, UserSaves
<1>4. CASE (\E b \in Inputs : Start(q, b)) \/ Abort(q) \/ FindByEmail(q) \/ InsertUser(q)
           \/ UpdateUser(q, Existing) \/ ReinsertUser(q, Existing)
  BY <1>0, <1>4 DEF Start, Abort, FindByEmail, InsertUser, UpdateUser, ReinsertUser,
     Finish, Goto, TypeOK, UserSaves
<1>5. CASE FileStep(q)
  BY <1>0, <1>5 DEF FileStep, CheckProduct, InsertFile, Sign, FindFile, HeadObject, Bind,
     SelectFile, UpdateFile, ReinsertFile, Finish, Goto, TypeOK, UserSaves
<1>6. ASSUME NEW r \in Requests, RequestStep(r), r # q PROVE Still(q)
  BY <1>0, <1>6, OthersStay
<1>7. CASE UNCHANGED <<requestVars, file>>
  BY <1>1, <1>7 DEF Still, requestVars
<1>8. ASSUME RequestStep(q)
      PROVE  Preload(q) \/ SelectUser(q) \/ FileStep(q) \/
             ((\E b \in Inputs : Start(q, b)) \/ Abort(q) \/ FindByEmail(q) \/ InsertUser(q)
           \/ UpdateUser(q, Existing) \/ ReinsertUser(q, Existing))
  BY <1>8 DEF RequestStep, UserStep
<1> QED
  BY <1>1, <1>2, <1>3, <1>4, <1>5, <1>6, <1>7, <1>8
  DEF Next, Idle, vars, RequestStep, PutObject, ExpireUrl, DeleteUser, DeleteProduct

\* The avatar that an update holds was an uploaded avatar of its user when it
\* was loaded, and remains one.
LEMMA AvatarsStep ==
  ASSUME Shape, CopiesAgree, AvatarsInv, LinksMatchKeys, [Next]_vars, Shape'
  PROVE  AvatarsInv'
<1> SUFFICES ASSUME NEW q \in Requests,
                    pc'[q] \in UserSaves, "avatarFileId" \notin DOMAIN body'[q].set,
                    body'[q].user \notin patched', entity'[q].avatarFileId # None
             PROVE  IsAvatarOf(entity[q].avatarFileId, body[q].user)'
  BY DEF AvatarsInv, KeepsAvatar
<1>1. PICK f : f = entity'[q].avatarFileId
  OBVIOUS
<1>2. PICK u : u = body'[q].user
  OBVIOUS
<1>3. /\ entity'[q] \in UserRow /\ f \in FileIds /\ u \in UserIds
  BY <1>1, <1>2 DEF Shape, HandlersInv, Handled, UserRow, Update, TypeOK
<1>4. body'[q] = body[q] /\ u = body[q].user /\ u \notin patched
  BY <1>2, UserMemory, StoresGrow
<1>5. IsAvatarOf(f, u)
  <2>1. CASE pc[q] \in UserSaves /\ entity'[q] = entity[q]
    BY <1>1, <1>4, <2>1 DEF AvatarsInv, KeepsAvatar
  <2>2. CASE users[u] # None /\ entity'[q].avatarFileId = users[u].avatarFileId
    <3>1. FileExists(f) /\ files[f].kind = "avatar" /\ files[f].target = u /\ f \in objects
      BY <1>1, <1>3, <1>4, <2>2 DEF LinksMatchKeys, UserExists
    <3>2. files[f] \in Copies(f)
      BY <3>1 DEF FileExists, Copies
    <3> QED  BY <1>3, <3>1, <3>2 DEF IsAvatarOf, CopiesAgree, SameFile
  <2> QED  BY <1>4, <2>1, <2>2, UserMemory
<1>6. IsAvatarOf(f, u)'
  BY <1>3, <1>5, AvatarStays
<1> QED  BY <1>1, <1>2, <1>6

\* What the avatar of row u refers to.
AvatarLink(u) ==
  UserExists(u) /\ users[u].avatarFileId # None =>
    LET f == users[u].avatarFileId IN
    /\ FileExists(f)
    /\ u \notin patched => files[f].kind = "avatar" /\ files[f].target = u /\ f \in objects

\* What the image of row p refers to.
ImageLink(p) ==
  products[p] # None /\ products[p].imageFileId # None =>
    LET f == products[p].imageFileId IN
    FileExists(f) /\ files[f].kind = "product-image" /\ files[f].target = p /\ f \in objects

\* The avatar of a user is an uploaded avatar of the user, whatever raced.
LEMMA AvatarLinkStep ==
  ASSUME Shape, CopiesAgree, ReadyCopies, SavesInv, AvatarsInv, [Next]_vars,
         NEW u \in UserIds, AvatarLink(u)
  PROVE  AvatarLink(u)'
<1> SUFFICES ASSUME users'[u] # None, users'[u].avatarFileId # None, NEW f, f = users'[u].avatarFileId
             PROVE  /\ FileExists(f)'
                    /\ u \notin patched' =>
                         files'[f].kind = "avatar" /\ files'[f].target = u /\ f \in objects'
  BY DEF AvatarLink, UserExists
<1>0. objects \subseteq objects' /\ patched \subseteq patched'
  BY StoresGrow
<1>1. CASE users'[u] = users[u] /\ ~\E w \in UserIds : DeleteUser(w)
  <2>1. FileExists(f)
    BY <1>1 DEF AvatarLink, UserExists
  <2>2. FileExists(f)' /\ SameFile(files'[f], files[f])
    BY <1>1, <2>1, RecordStays
  <2> QED  BY <1>0, <1>1, <2>2 DEF AvatarLink, UserExists, SameFile
<1>2. ASSUME NEW w \in UserIds, DeleteUser(w)
      PROVE  /\ FileExists(f)'
             /\ u \notin patched' =>
                  files'[f].kind = "avatar" /\ files'[f].target = u /\ f \in objects'
  <2>1. users[u] # None /\ f = users[u].avatarFileId
    BY <1>2, DeletionKeeps
  <2>2. FileExists(f)
    BY <2>1 DEF AvatarLink, UserExists
  <2>3. FileExists(f)' /\ files'[f] = files[f]
    BY <1>2, <2>1, <2>2, DeletionKeeps
  <2> QED  BY <1>0, <2>1, <2>3 DEF AvatarLink, UserExists
<1>3. ASSUME NEW r \in Requests, WritesUser(r, u)
      PROVE  /\ FileExists(f)'
             /\ u \notin patched' =>
                  files'[f].kind = "avatar" /\ files'[f].target = u /\ f \in objects'
  <2>1. FileExists(f) /\ UNCHANGED <<files, objects>>
    BY <1>3 DEF WritesUser
  <2>2. ASSUME u \notin patched'
        PROVE  files[f].kind = "avatar" /\ files[f].target = u /\ f \in objects
    <3>1. "avatarFileId" \notin DOMAIN body[r].set /\ u \notin patched /\ body[r].user = u
      BY <1>0, <1>3, <2>2 DEF WritesUser
    <3>2. CASE f = entity[r].avatarFileId
      <4>1. IsAvatarOf(f, u)
        BY <1>3, <3>1, <3>2 DEF WritesUser, AvatarsInv, KeepsAvatar, UserSaves
      <4> QED  BY <2>1, <4>1 DEF IsAvatarOf, Copies, FileExists
    <3>3. CASE users[u] # None /\ f = users[u].avatarFileId
      BY <3>1, <3>3 DEF AvatarLink, UserExists
    <3> QED  BY <1>3, <3>2, <3>3 DEF WritesUser
  <2> QED  BY <2>1, <2>2 DEF FileExists
<1>4. ASSUME NEW r \in Requests, BindsAvatar(r, u)
      PROVE  /\ FileExists(f)'
             /\ u \notin patched' =>
                  files'[f].kind = "avatar" /\ files'[f].target = u /\ f \in objects'
  <2>1. /\ f = file[r] /\ FileExists(f) /\ UNCHANGED <<files, objects>> /\ pc[r] = "bind"
        /\ entity[r].kind = "avatar" /\ entity[r].target = u
    BY <1>4 DEF BindsAvatar, KeyMatches
  <2>2. entity[r] \in Copies(f) /\ files[f] \in Copies(f) /\ f \in FileIds
    BY <2>1, MemoryIsCopy DEF FileExists, Completing
  <2>3. entity[r].status = "READY"
    BY <2>1 DEF SavesInv, Saved
  <2>4. f \in objects
    BY <2>2, <2>3 DEF ReadyCopies
  <2>5. SameFile(files[f], entity[r])
    BY <2>2 DEF CopiesAgree
  <2> QED  BY <2>1, <2>4, <2>5 DEF FileExists, SameFile
<1>5. ASSUME NEW r \in Requests, CreatesUser(r, u) PROVE FALSE
  BY <1>5 DEF CreatesUser
<1>6. ASSUME NEW r \in Requests, NEW w \in UserIds, w # u,
             CreatesUser(r, w) \/ WritesUser(r, w) \/ BindsAvatar(r, w)
      PROVE  users'[u] = users[u]
  BY <1>6 DEF CreatesUser, WritesUser, BindsAvatar
<1> QED  BY <1>1, <1>2, <1>3, <1>4, <1>5, <1>6, UserChanges

\* Request r makes its file the image of product p.
BindsImage(r, p) ==
  /\ pc[r] = "bind" /\ body[r].bindTo = "product-image" /\ BindTarget(r) = p
  /\ KeyMatches(r) /\ FileExists(file[r])
  /\ products'[p].imageFileId = file[r]
  /\ UNCHANGED <<files, objects>>

\* A row of products gets an image, is deleted, or loses an image with its file.
LEMMA ProductChanges ==
  ASSUME Shape, [Next]_vars, NEW p \in Products, products'[p] # products[p], products'[p] # None
  PROVE  \/ \E r \in Requests : BindsImage(r, p)
         \/ \E u \in UserIds : DeleteUser(u)
<1> USE DEF fileVars, storeVars, userVars
<1>0. TypeOK
  BY DEF Shape
<1>1. ASSUME NEW r \in Requests, RequestStep(r)
      PROVE  BindsImage(r, p)
  <2>1. CASE Bind(r)
    <3> DEFINE t == BindTarget(r)
    <3>1. /\ pc[r] = "bind" /\ KeyMatches(r) /\ TargetExists(r) /\ FileExists(file[r])
          /\ body[r].bindTo = "product-image"
          /\ products' = [products EXCEPT ![t].imageFileId = file[r]]
          /\ UNCHANGED <<files, objects>>
      BY <2>1 DEF Bind
    <3>2. t \in Products /\ products[t] # None
      BY <3>1, BindsToRow
    <3>3. t = p
      BY <1>0, <3>1, <3>2 DEF TypeOK
    <3>4. products[p] \in [imageFileId : FileIds \cup {None}]
      BY <1>0, <3>2, <3>3 DEF TypeOK
    <3>5. products'[p] = [products[p] EXCEPT !.imageFileId = file[r]]
      BY <1>0, <3>1, <3>3 DEF TypeOK
    <3>6. products'[p].imageFileId = file[r]
      BY <3>4, <3>5
    <3> QED  BY <3>1, <3>3, <3>6 DEF BindsImage
  <2>2. CASE (\E b \in Inputs : Start(r, b)) \/ Abort(r) \/ UserStep(r)
    BY <2>2 DEF Start, Abort, UserStep
  <2>3. CASE CheckProduct(r) \/ InsertFile(r) \/ Sign(r) \/ FindFile(r) \/ HeadObject(r)
             \/ SelectFile(r) \/ UpdateFile(r) \/ ReinsertFile(r)
    BY <2>3 DEF CheckProduct, InsertFile, Sign, FindFile, HeadObject, SelectFile, UpdateFile,
       ReinsertFile
  <2> QED  BY <1>1, <2>1, <2>2, <2>3 DEF RequestStep, FileStep
<1>2. ASSUME NEW x \in Products, DeleteProduct(x) PROVE FALSE
  BY <1>0, <1>2 DEF DeleteProduct, TypeOK
<1> QED
  BY <1>1, <1>2 DEF Next, Idle, vars, RequestStep, PutObject, ExpireUrl

\* The image of a product is one uploaded for it.
LEMMA ImageLinkStep ==
  ASSUME Shape, CopiesAgree, ReadyCopies, SavesInv, [Next]_vars,
         NEW p \in Products, ImageLink(p)
  PROVE  ImageLink(p)'
<1> DEFINE Fine(f) == FileExists(f)' /\ files'[f].kind = "product-image" /\ files'[f].target = p
                      /\ f \in objects'
<1> SUFFICES ASSUME products'[p] # None, products'[p].imageFileId # None,
                    NEW f, f = products'[p].imageFileId
             PROVE  Fine(f)
  BY DEF ImageLink
<1>0. objects \subseteq objects'
  BY StoresGrow
<1>1. CASE products'[p] = products[p] /\ ~\E w \in UserIds : DeleteUser(w)
  <2>1. FileExists(f)
    BY <1>1 DEF ImageLink
  <2>2. FileExists(f)' /\ SameFile(files'[f], files[f])
    BY <1>1, <2>1, RecordStays
  <2> QED  BY <1>0, <1>1, <2>2 DEF ImageLink, SameFile
<1>2. ASSUME NEW w \in UserIds, DeleteUser(w) PROVE Fine(f)
  <2> DEFINE gone == {g \in Existing : files[g].owner = w}
  <2>1. /\ products[p] # None
        /\ products'[p] = [imageFileId |-> Unlink(products[p].imageFileId, gone)]
        /\ files' = [g \in FileIds |-> IF g \in gone THEN None ELSE files[g]]
    BY <1>2 DEF DeleteUser
  <2> HIDE DEF gone
  <2>2. f = products[p].imageFileId /\ f \notin gone
    BY <2>1 DEF Unlink
  <2>3. FileExists(f) /\ files[f].kind = "product-image" /\ files[f].target = p /\ f \in objects
    BY <2>1, <2>2 DEF ImageLink
  <2> QED  BY <1>0, <2>1, <2>2, <2>3 DEF FileExists
<1>3. ASSUME NEW r \in Requests, BindsImage(r, p) PROVE Fine(f)
  <2>1. /\ f = file[r] /\ FileExists(f) /\ UNCHANGED <<files, objects>> /\ pc[r] = "bind"
        /\ entity[r].kind = "product-image" /\ entity[r].target = p
    BY <1>3 DEF BindsImage, KeyMatches
  <2>2. entity[r] \in Copies(f) /\ files[f] \in Copies(f) /\ f \in FileIds
    BY <2>1, MemoryIsCopy DEF FileExists, Completing
  <2>3. entity[r].status = "READY"
    BY <2>1 DEF SavesInv, Saved
  <2>4. f \in objects
    BY <2>2, <2>3 DEF ReadyCopies
  <2>5. SameFile(files[f], entity[r])
    BY <2>2 DEF CopiesAgree
  <2> QED  BY <2>1, <2>4, <2>5 DEF FileExists, SameFile
<1> QED  BY <1>1, <1>2, <1>3, ProductChanges

\* Links go on matching the keys of their files.
LEMMA LinksStep ==
  ASSUME Shape, CopiesAgree, ReadyCopies, SavesInv, AvatarsInv, LinksMatchKeys, [Next]_vars
  PROVE  LinksMatchKeys'
<1>1. \A u \in UserIds : AvatarLink(u)
  BY DEF LinksMatchKeys, AvatarLink
<1>2. \A p \in Products : ImageLink(p)
  BY DEF LinksMatchKeys, ImageLink
<1>3. \A u \in UserIds : AvatarLink(u)'
  BY <1>1, AvatarLinkStep
<1>4. \A p \in Products : ImageLink(p)'
  BY <1>2, ImageLinkStep
<1> QED  BY <1>3, <1>4 DEF LinksMatchKeys, AvatarLink, ImageLink

-----------------------------------------------------------------------------
(* The theorems.                                                           *)

\* The invariant holds of tables that satisfy their constraints and no request.
LEMMA FilesInit == Init => FilesInv
<1> SUFFICES ASSUME Init PROVE FilesInv  OBVIOUS
<1>1. Shape
  BY ShapeInit
<1>2. \A f \in FileIds : Copies(f) = {}
  BY DEF Init, Copies, Completing, FileSaves
<1>3. CopiesAgree /\ ReadyCopies
  BY <1>2 DEF CopiesAgree, ReadyCopies
<1>4. SavesInv /\ CompletionsInv /\ AvatarsInv
  BY DEF Init, SavesInv, Saved, CompletionsInv, Completed, AvatarsInv, KeepsAvatar, FileSaves,
     UserSaves
<1>5. ReadyFilesWereBound
  BY DEF Init, ReadyFilesWereBound, Ready, FileExists
<1>6. LinksMatchKeys /\ OneUserPerEmail
  BY InitialRowsAssumption DEF Init, LinksMatchKeys, OneUserPerEmail, UserExists
<1> QED  BY <1>1, <1>3, <1>4, <1>5, <1>6 DEF FilesInv, Shape

\* Every step of every handler keeps it.
LEMMA FilesStep == FilesInv /\ [Next]_vars => FilesInv'
<1> SUFFICES ASSUME FilesInv, [Next]_vars PROVE FilesInv'  OBVIOUS
<1>0. /\ Shape /\ CopiesAgree /\ ReadyCopies /\ SavesInv /\ ReadyFilesWereBound
      /\ CompletionsInv /\ AvatarsInv /\ LinksMatchKeys /\ OneUserPerEmail
  BY DEF FilesInv, Shape
<1>1. Shape' /\ fileIds \subseteq fileIds'
  BY <1>0, ShapeStep
<1>2. CopiesAgree' /\ ReadyCopies'
  BY <1>0, CopiesStep
<1>3. SavesInv' /\ ReadyFilesWereBound'
  BY <1>0, SavesStep
<1>4. CompletionsInv'
  BY <1>0, <1>1, CompletionsStep
<1>5. AvatarsInv'
  BY <1>0, <1>1, AvatarsStep
<1>6. LinksMatchKeys' /\ OneUserPerEmail'
  BY <1>0, LinksStep, EmailsStep
<1> QED  BY <1>1, <1>2, <1>3, <1>4, <1>5, <1>6 DEF FilesInv, Shape

\* In every reachable state the invariant holds.
THEOREM FilesInvariance == Spec => []FilesInv
BY FilesInit, FilesStep, PTL DEF Spec

\* Rows, records in memory and ids keep their types whatever handlers race.
THEOREM TypeCorrect == Spec => []TypeOK
<1>1. FilesInv => TypeOK
  BY DEF FilesInv
<1> QED  BY <1>1, FilesInvariance, PTL

\* user.service.ts create and updateUser: no two users ever have one email.
THEOREM EmailsAreUnique == Spec => []OneUserPerEmail
<1>1. FilesInv => OneUserPerEmail
  BY DEF FilesInv
<1> QED  BY <1>1, FilesInvariance, PTL

\* completeUpload: a file is ready only if its object was put, although records
\* deleted with their owner are inserted again from memory.
THEOREM ReadyIsUploaded == Spec => []ReadyFilesAreUploaded
<1>1. FilesInv => ReadyFilesAreUploaded
  BY DEF FilesInv, ReadyCopies, Copies, ReadyFilesAreUploaded, Ready, FileExists
<1> QED  BY <1>1, FilesInvariance, PTL

\* completeUpload binds before it saves, so a ready file was bound.
THEOREM ReadyIsBound == Spec => []ReadyFilesWereBound
<1>1. FilesInv => ReadyFilesWereBound
  BY DEF FilesInv
<1> QED  BY <1>1, FilesInvariance, PTL

\* A completion answered with success is not undone by what others save.
THEOREM CompletedIsReady == Spec => []CompletedFilesAreReady
<1>1. FilesInv => CompletedFilesAreReady
  <2> SUFFICES ASSUME FilesInv, NEW r \in Requests,
                      answer[r] = "ok", body[r].op = "complete", FileExists(file[r])
               PROVE  Ready(file[r])
    BY DEF CompletedFilesAreReady
  <2>1. Completed(r) /\ Handled(r)
    BY DEF FilesInv, CompletionsInv, HandlersInv
  <2>2. body[r] \in Inputs
    <3>1. pc[r] # "start"
      BY <2>1 DEF Handled
    <3> QED  BY <2>1, <3>1 DEF Handled
  <2>3. body[r] \in Complete
    BY <2>2, BodyKinds
  <2> QED  BY <2>1, <2>3 DEF Completed, Ready, FileExists
<1> QED  BY <1>1, FilesInvariance, PTL

\* assertAvatarKeyBelongsToOwner and assertProductKeyMatchesTarget: a link goes
\* to an uploaded file of its own row, although save writes stale copies.
THEOREM LinksAlwaysMatch == Spec => []LinksMatchKeys
<1>1. FilesInv => LinksMatchKeys
  BY DEF FilesInv
<1> QED  BY <1>1, FilesInvariance, PTL
=============================================================================
