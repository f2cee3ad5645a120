------------------------------- MODULE Files -------------------------------
(***************************************************************************)
(* FilesService (src/src/files/files.service.ts) with the object store,    *)
(* composed with Users: a client asks for a presigned URL, puts the object *)
(* there, and completes the upload, which binds the file to its user or to *)
(* a product.  Nothing here is a transaction of more than one statement,   *)
(* and users and products may be deleted between any two steps.            *)
(***************************************************************************)
EXTENDS Users

CONSTANTS
  Products,
  Inputs,         \* bodies of the requests
  Roles, Scopes,  \* per user: what its token says
  MaxImageBytes,
  InitialUsers,   \* rows of users at the start
  MaxDeletes

\* The key of an object names its kind and the user or product it is for.
FileRow == [owner : UserIds, kind : {"avatar", "product-image"}, target : UserIds \cup Products,
            entityId : UserIds \cup Products \cup {None}, status : {"PENDING", "READY"}]

SignUp == [op : {"signup"}, email : Emails]
\* user is the id preload looks for: the one in the body, if it sets one, else the
\* one in the path.  A body may set any column; of the columns, passwords, roles,
\* scopes and times are left out (what a user may do is in its token).
Update == [op : {"update"}, user : UserIds,
           set : [{"email"} -> Emails] \cup [{"avatarFileId"} -> FileIds \cup {None}]
                   \cup [email : Emails, avatarFileId : FileIds \cup {None}]]
Presign == [op : {"presign"}, user : UserIds, kind : {"avatar", "product-image"},
            productId : Products \cup {None}, sizeBytes : Nat]
Complete == [op : {"complete"}, user : UserIds, fileId : FileIds,
             bindTo : {"avatar", "product-image"}, productId : Products \cup {None}]

ASSUME InputsAssumption ==
  \A b \in Inputs : b \in SignUp \/ b \in Update \/ b \in Presign \/ b \in Complete
ASSUME RowsAssumption ==
  /\ InitialUsers \in [UserIds -> UserRow \cup {None}]
  /\ None \notin Products \cup FileRow
  /\ UserIds \cap Products = {}
\* The rows at the start satisfy the constraints of the tables: an email has one
\* user, and there is no file yet that an avatar could refer to.
ASSUME InitialRowsAssumption ==
  \A u, v \in UserIds : InitialUsers[u] # None /\ InitialUsers[v] # None =>
    /\ InitialUsers[u].avatarFileId = None
    /\ InitialUsers[u].email = InitialUsers[v].email => u = v
ASSUME LimitsAssumption == MaxImageBytes \in Nat /\ MaxDeletes \in Nat

VARIABLES
  file,           \* per request: the id of its file
  files,          \* rows of files
  products,       \* rows of products: imageFileId
  objects,        \* files whose object is in the bucket
  urls,           \* files with a presigned URL that has not expired
  deletes,
  \* history
  fileIds,        \* ids drawn so far
  bound           \* files that were bound to a user or a product

fileVars == <<file, files, fileIds>>
storeVars == <<objects, urls>>
vars == <<requestVars, userVars, fileVars, products, storeVars, deletes, bound>>

FileExists(f) == f \in FileIds /\ files[f] # None
Existing == {f \in FileIds : files[f] # None}

Init ==
  /\ pc = [r \in Requests |-> "start"]
  /\ body = [r \in Requests |-> None]
  /\ entity = [r \in Requests |-> None]
  /\ changed = [r \in Requests |-> {}]
  /\ answer = [r \in Requests |-> "none"]
  /\ file = [r \in Requests |-> None]
  /\ users = InitialUsers
  /\ userIds = {u \in UserIds : InitialUsers[u] # None}
  /\ patched = {}
  /\ files = [f \in FileIds |-> None]
  /\ fileIds = {}
  /\ products = [p \in Products |-> [imageFileId |-> None]]
  /\ objects = {} /\ urls = {}
  /\ deletes = 0
  /\ bound = {}

-----------------------------------------------------------------------------
(* createPresignedUpload                                                   *)

\* assertCanPresign
CanPresign(u, kind) ==
  /\ Roles[u] \cap {"user", "support", "admin"} # {}
  /\ \/ "admin" \in Roles[u]
     \/ "files:write" \in Scopes[u]
     \/ kind = "product-image" /\ "products:images:write" \in Scopes[u]

\* validateUploadInput up to its query
ValidUpload(b) ==
  /\ b.sizeBytes \in 1..MaxImageBytes
  /\ (b.kind = "avatar") = (b.productId = None)

\* A request arrives and runs up to its first await.
Start(r, b) ==
  /\ pc[r] = "start"
  /\ body' = [body EXCEPT ![r] = b]
  /\ \/ b.op = "signup" /\ Goto(r, "findEmail") /\ UNCHANGED <<answer, file>>
     \/ b.op = "update" /\ Goto(r, "preload") /\ UNCHANGED <<answer, file>>
     \/ /\ b.op = "complete"
        /\ file' = [file EXCEPT ![r] = b.fileId]
        /\ Goto(r, "findFile")
        /\ UNCHANGED answer
     \/ /\ b.op = "presign"
        /\ \/ ~CanPresign(b.user, b.kind) /\ Finish(r, "forbidden")
           \/ CanPresign(b.user, b.kind) /\ ~ValidUpload(b) /\ Finish(r, "badRequest")
           \/ /\ CanPresign(b.user, b.kind) /\ ValidUpload(b)
              /\ Goto(r, IF b.kind = "avatar" THEN "insertFile" ELSE "checkProduct")
              /\ UNCHANGED answer
        /\ UNCHANGED file
  /\ UNCHANGED <<entity, changed, userVars, files, fileIds, products, storeVars, deletes, bound>>

CheckProduct(r) ==
  /\ pc[r] = "checkProduct"
  /\ \/ products[body[r].productId] = None /\ Finish(r, "notFound")
     \/ products[body[r].productId] # None /\ Goto(r, "insertFile") /\ UNCHANGED answer
  /\ UNCHANGED <<body, entity, changed, userVars, fileVars, products, storeVars, deletes, bound>>

\* buildObjectKey, and the record whose owner the foreign key wants to exist.
NewFile(b) ==
  [owner |-> b.user, kind |-> b.kind,
   target |-> IF b.kind = "avatar" THEN b.user ELSE b.productId,
   entityId |-> b.productId, status |-> "PENDING"]

\* Mutant: the entity is used that has no id, not the saved one.
MutUnsavedEntity(r) ==
  /\ pc[r] = "insertFile"
  /\ UserExists(body[r].user)
  /\ \E f \in FileIds \ fileIds :
       /\ files' = [files EXCEPT ![f] = NewFile(body[r])]
       /\ fileIds' = fileIds \cup {f}
  /\ Goto(r, "sign")
  /\ UNCHANGED <<body, entity, changed, answer, userVars, file, products, storeVars, deletes, bound>>

InsertFile(r) ==
  /\ pc[r] = "insertFile"
  /\ \/ /\ UserExists(body[r].user)
        /\ \E f \in FileIds \ fileIds :
             /\ files' = [files EXCEPT ![f] = NewFile(body[r])]
             /\ fileIds' = fileIds \cup {f}
             /\ file' = [file EXCEPT ![r] = f]
        /\ Goto(r, "sign")
        /\ UNCHANGED answer
     \/ /\ ~UserExists(body[r].user)
        /\ Finish(r, "constraint")
        /\ UNCHANGED fileVars
  /\ UNCHANGED <<body, entity, changed, userVars, products, storeVars, deletes, bound>>

\* presignPutObject, and the answer.
Sign(r) ==
  /\ pc[r] = "sign"
  /\ urls' = urls \cup {file[r]}
  /\ Finish(r, "ok")
  /\ UNCHANGED <<body, entity, changed, userVars, fileVars, products, objects, deletes, bound>>

\* The client puts the object, once or again.
PutObject(f) ==
  /\ f \in urls
  /\ objects' = objects \cup {f}
  /\ UNCHANGED <<requestVars, userVars, fileVars, products, urls, deletes, bound>>

ExpireUrl(f) ==
  /\ f \in urls
  /\ urls' = urls \ {f}
  /\ UNCHANGED <<requestVars, userVars, fileVars, products, objects, deletes, bound>>

-----------------------------------------------------------------------------
(* completeUpload                                                          *)

\* findByIdOrThrow and assertOwner
FindFile(r) ==
  LET row == files[file[r]] IN
  /\ pc[r] = "findFile"
  /\ \/ row = None /\ Finish(r, "notFound") /\ UNCHANGED entity
     \/ row # None /\ row.owner # body[r].user /\ Finish(r, "forbidden") /\ UNCHANGED entity
     \/ /\ row # None /\ row.owner = body[r].user
        /\ entity' = [entity EXCEPT ![r] = row]
        /\ Goto(r, IF row.status = "PENDING" THEN "headObject" ELSE "bind")
        /\ UNCHANGED answer
  /\ UNCHANGED <<body, changed, userVars, fileVars, products, storeVars, deletes, bound>>

\* Mutant: a missing object is not an error.
MutNotChecked(f) == TRUE

ObjectExists(f) == f \in objects

\* Mutant: the status is not set.
MutStillPending(row) == row

MarkReady(row) == [row EXCEPT !.status = "READY"]

\* Mutant: the file is saved before it is bound.
MutSaveFirst(r) ==
  /\ pc[r] = "headObject"
  /\ ObjectExists(file[r])
  /\ entity' = [entity EXCEPT ![r] = MarkReady(@)]
  /\ files' = IF FileExists(file[r]) THEN [files EXCEPT ![file[r]] = MarkReady(@)] ELSE files
  /\ Goto(r, "bind")
  /\ UNCHANGED <<body, changed, answer, userVars, file, fileIds, products, storeVars, deletes, bound>>

\* Only an object that is in the bucket makes the file ready, so far in memory.
HeadObject(r) ==
  /\ pc[r] = "headObject"
  /\ \/ ~ObjectExists(file[r]) /\ Finish(r, "badRequest") /\ UNCHANGED entity
     \/ /\ ObjectExists(file[r])
        /\ entity' = [entity EXCEPT ![r] = MarkReady(@)]
        /\ Goto(r, "bind")
        /\ UNCHANGED answer
  /\ UNCHANGED <<body, changed, userVars, fileVars, products, storeVars, deletes, bound>>

\* The row that gets the link.
BindTarget(r) == IF body[r].bindTo = "avatar" THEN body[r].user ELSE body[r].productId

\* Mutant: the key is not compared with what the file is bound to.
MutAnyKey(r) == TRUE

\* assertAvatarKeyBelongsToOwner and assertProductKeyMatchesTarget
KeyMatches(r) == entity[r].kind = body[r].bindTo /\ entity[r].target = BindTarget(r)

TargetExists(r) ==
  UserExists(BindTarget(r)) \/ (BindTarget(r) \in Products /\ products[BindTarget(r)] # None)

\* attachFileToDomain: an UPDATE of users or products, whose foreign key wants
\* the file to exist.
Bind(r) ==
  /\ pc[r] = "bind"
  /\ \/ /\ \/ ~KeyMatches(r) /\ Finish(r, "badRequest")
           \/ KeyMatches(r) /\ ~TargetExists(r) /\ Finish(r, "notFound")
           \/ KeyMatches(r) /\ TargetExists(r) /\ ~FileExists(file[r]) /\ Finish(r, "constraint")
        /\ UNCHANGED <<entity, users, products, bound>>
     \/ /\ KeyMatches(r) /\ TargetExists(r) /\ FileExists(file[r])
        /\ entity' = [entity EXCEPT ![r].entityId = BindTarget(r)]
        /\ bound' = bound \cup {file[r]}
        /\ \/ /\ body[r].bindTo = "avatar"
              /\ users' = [users EXCEPT ![BindTarget(r)].avatarFileId = file[r]]
              /\ UNCHANGED products
           \/ /\ body[r].bindTo = "product-image"
              /\ products' = [products EXCEPT ![BindTarget(r)].imageFileId = file[r]]
              /\ UNCHANGED users
        /\ Goto(r, "saveFile")
        /\ UNCHANGED answer
  /\ UNCHANGED <<body, changed, userIds, patched, fileVars, storeVars, deletes>>

\* save(file): the SELECT ...
SelectFile(r) ==
  /\ pc[r] = "saveFile"
  /\ \/ /\ FileExists(file[r])
        /\ changed' = [changed EXCEPT ![r] =
             {c \in DOMAIN entity[r] : entity[r][c] # files[file[r]][c]}]
        /\ Goto(r, "updateFile")
     \/ /\ ~FileExists(file[r])
        /\ Goto(r, "reinsertFile")
        /\ UNCHANGED changed
  /\ UNCHANGED <<body, entity, answer, userVars, fileVars, products, storeVars, deletes, bound>>

\* ... and the UPDATE of the changed columns, of no row if it has gone ...
UpdateFile(r) ==
  /\ pc[r] = "updateFile"
  /\ files' = IF FileExists(file[r]) THEN [files EXCEPT ![file[r]] = Patch(r, @)] ELSE files
  /\ Finish(r, "ok")
  /\ UNCHANGED <<body, entity, changed, userVars, file, fileIds, products, storeVars, deletes, bound>>

\* ... or the INSERT of a record that has gone with its owner.
ReinsertFile(r) ==
  LET valid == ~FileExists(file[r]) /\ UserExists(entity[r].owner) IN
  /\ pc[r] = "reinsertFile"
  /\ \/ /\ valid
        /\ files' = [files EXCEPT ![file[r]] = entity[r]]
        /\ Finish(r, "ok")
     \/ /\ ~valid
        /\ Finish(r, "constraint")
        /\ UNCHANGED files
  /\ UNCHANGED <<body, entity, changed, userVars, file, fileIds, products, storeVars, deletes, bound>>

-----------------------------------------------------------------------------
(* Deletions and failures.                                                 *)

\* A link to a file after the files gone were deleted.
Unlink(f, gone) == IF f \in gone THEN None ELSE f

\* deleteUser: FK_files_owner cascades to the user's files, whose avatar and
\* image links are set to NULL.  Objects stay in the bucket.
DeleteUser(u) ==
  LET gone == {f \in Existing : files[f].owner = u} IN
  /\ deletes < MaxDeletes /\ deletes' = deletes + 1
  /\ UserExists(u)
  /\ users' = [v \in UserIds |->
       IF v = u \/ users[v] = None THEN None
       ELSE [users[v] EXCEPT !.avatarFileId = Unlink(@, gone)]]
  /\ products' = [p \in Products |->
       IF products[p] = None THEN None ELSE [imageFileId |-> Unlink(products[p].imageFileId, gone)]]
  /\ files' = [f \in FileIds |-> IF f \in gone THEN None ELSE files[f]]
  /\ UNCHANGED <<requestVars, userIds, patched, file, fileIds, storeVars, bound>>

\* deleteProduct; its files keep their entityId.
DeleteProduct(p) ==
  /\ deletes < MaxDeletes /\ deletes' = deletes + 1
  /\ products[p] # None
  /\ products' = [products EXCEPT ![p] = None]
  /\ UNCHANGED <<requestVars, userVars, fileVars, storeVars, bound>>

\* A statement or a call to S3 fails, or the process dies.
Abort(r) ==
  /\ pc[r] \notin {"start", "done"}
  /\ Finish(r, "error")
  /\ UNCHANGED <<body, entity, changed, userVars, fileVars, products, storeVars, deletes, bound>>

UserStep(r) ==
  /\ \/ FindByEmail(r) \/ InsertUser(r) \/ Preload(r) \/ SelectUser(r)
     \/ UpdateUser(r, Existing) \/ ReinsertUser(r, Existing)
  /\ UNCHANGED <<fileVars, products, storeVars, deletes, bound>>

FileStep(r) ==
  \/ CheckProduct(r) \/ InsertFile(r) \/ Sign(r)
  \/ FindFile(r) \/ HeadObject(r) \/ Bind(r)
  \/ SelectFile(r) \/ UpdateFile(r) \/ ReinsertFile(r)

Idle == (\A r \in Requests : pc[r] = "done") /\ UNCHANGED vars

Next ==
  \/ \E r \in Requests : (\E b \in Inputs : Start(r, b)) \/ UserStep(r) \/ FileStep(r) \/ Abort(r)
  \/ \E f \in FileIds : PutObject(f) \/ ExpireUrl(f)
  \/ \E u \in UserIds : DeleteUser(u)
  \/ \E p \in Products : DeleteProduct(p)
  \/ Idle

Spec == Init /\ [][Next]_vars
-----------------------------------------------------------------------------
(* Properties.                                                             *)

Steps ==
  {"start", "findEmail", "insertUser", "preload", "saveUser", "updateUser", "reinsertUser",
   "checkProduct", "insertFile", "sign", "findFile", "headObject", "bind",
   "saveFile", "updateFile", "reinsertFile", "done"}
Answers ==
  {"none", "ok", "existing", "unique", "constraint", "notFound", "forbidden", "badRequest", "error"}

\* Types of all variables (requests, rows, objects, ids drawn).
TypeOK ==
  /\ pc \in [Requests -> Steps]
  /\ body \in [Requests -> Inputs \cup {None}]
  /\ entity \in [Requests -> UserRow \cup FileRow \cup {None}]
  /\ changed \in [Requests -> SUBSET {"email", "avatarFileId", "entityId", "status"}]
  /\ answer \in [Requests -> Answers]
  /\ file \in [Requests -> FileIds \cup {None}]
  /\ users \in [UserIds -> UserRow \cup {None}]
  /\ files \in [FileIds -> FileRow \cup {None}]
  /\ products \in [Products -> [imageFileId : FileIds \cup {None}] \cup {None}]
  /\ userIds \subseteq UserIds /\ patched \subseteq UserIds
  /\ fileIds \subseteq FileIds /\ objects \subseteq fileIds /\ urls \subseteq fileIds
  /\ bound \subseteq fileIds
  /\ deletes \in 0..MaxDeletes

Ready(f) == FileExists(f) /\ files[f].status = "READY"

\* doc/homework09-files.md: "Status transition: `pending -> ready` (after S3
\* object existence check)".  No interleaving of completions, deletions and
\* records inserted again makes a file ready whose object was never put.
ReadyFilesAreUploaded == \A f \in FileIds : Ready(f) => f \in objects

\* doc/homework09-files.md: "`complete` changes status to `ready` and binds
\* entity".  Because it binds first, a failure at any point leaves no ready
\* file that was not bound to the user or product its key names.
ReadyFilesWereBound ==
  \A f \in FileIds : Ready(f) => f \in bound /\ files[f].entityId = files[f].target

\* A completion that was answered with success has made the file ready, unless
\* the record has been deleted with its owner: what concurrent completions
\* save from older copies of the record does not undo it.
CompletedFilesAreReady ==
  \A r \in Requests :
    answer[r] = "ok" /\ body[r].op = "complete" /\ FileExists(file[r]) => Ready(file[r])

\* "User cannot upload/bind into foreign prefix": an avatar is an uploaded
\* avatar of its own user (unless PUT /users/:id has set the column by hand),
\* a product's image one uploaded for it, and neither outlives its record.
LinksMatchKeys ==
  /\ \A u \in UserIds : UserExists(u) /\ users[u].avatarFileId # None =>
       LET f == users[u].avatarFileId IN
       /\ FileExists(f)
       /\ u \notin patched =>
            files[f].kind = "avatar" /\ files[f].target = u /\ f \in objects
  /\ \A p \in Products : products[p] # None /\ products[p].imageFileId # None =>
       LET f == products[p].imageFileId IN
       FileExists(f) /\ files[f].kind = "product-image" /\ files[f].target = p /\ f \in objects
=============================================================================
