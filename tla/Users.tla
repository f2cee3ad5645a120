------------------------------- MODULE Users -------------------------------
(***************************************************************************)
(* UsersService (src/src/users/user.service.ts): sign-up, update and       *)
(* deletion of users.  Every statement is a transaction of its own.        *)
(*                                                                         *)
(* Repository.save of an entity that has an id is two statements: a SELECT *)
(* that decides between INSERT and UPDATE and finds the changed columns,   *)
(* and the write itself.  Between them, and since the entity was loaded,   *)
(* the row may have changed or gone.                                       *)
(*                                                                         *)
(* The module has no specification of its own: Files composes it with the  *)
(* files, whose rows users refer to.  A request that a failing statement   *)
(* or the death of the process ends leaves nothing but what it has         *)
(* committed, so one action (Abort) stands for both.                       *)
(***************************************************************************)
EXTENDS Integers, FiniteSets

CONSTANTS
  Requests,
  UserIds, FileIds,
  Emails,
  None            \* NULL, or no row

UserRow == [email : Emails, avatarFileId : FileIds \cup {None}]

ASSUME NoneIsNoId == None \notin UserIds \cup FileIds \cup UserRow

VARIABLES
  pc,             \* per request: where its handler is
  body,           \* per request: its input
  entity,         \* per request: the row it holds in memory
  changed,        \* per request: columns its save found changed
  answer,         \* per request: "none", "ok" or why it was refused
  users,          \* rows of users
  \* history
  userIds,        \* ids drawn so far
  patched         \* users whose avatarFileId the body of an update has set

requestVars == <<pc, body, entity, changed, answer>>
userVars == <<users, userIds, patched>>

UserExists(u) == u \in UserIds /\ users[u] # None

Goto(r, step) == pc' = [pc EXCEPT ![r] = step]

Finish(r, what) ==
  /\ Goto(r, "done")
  /\ answer' = [answer EXCEPT ![r] = what]

\* Mutant: no unique index on users.email.
MutNoEmailIndex(e, u) == TRUE

\* IDX_users_email_unique lets row u have the email e.
EmailFree(e, u) == \A v \in UserIds \ {u} : UserExists(v) => users[v].email # e

-----------------------------------------------------------------------------
(* create: find, hash the password, insert.                                *)

FindByEmail(r) ==
  /\ pc[r] = "findEmail"
  /\ \/ /\ \E u \in UserIds : UserExists(u) /\ users[u].email = body[r].email
        /\ Finish(r, "existing")
     \/ /\ \A u \in UserIds : UserExists(u) => users[u].email # body[r].email
        /\ Goto(r, "insertUser")
        /\ UNCHANGED answer
  /\ UNCHANGED <<body, entity, changed, userVars>>

InsertUser(r) ==
  /\ pc[r] = "insertUser"
  /\ \/ /\ EmailFree(body[r].email, None)
        /\ \E u \in UserIds \ userIds :
             /\ users' = [users EXCEPT ![u] = [email |-> body[r].email, avatarFileId |-> None]]
             /\ userIds' = userIds \cup {u}
        /\ Finish(r, "ok")
     \/ /\ ~EmailFree(body[r].email, None)
        /\ Finish(r, "unique")
        /\ UNCHANGED <<users, userIds>>
  /\ UNCHANGED <<body, entity, changed, patched>>

-----------------------------------------------------------------------------
(* updateUser: preload, then save.                                         *)

\* The row as it is now, with the columns of the body over it.
Preload(r) ==
  LET u == body[r].user IN
  /\ pc[r] = "preload"
  /\ \/ /\ ~UserExists(u)
        /\ Finish(r, "notFound")
        /\ UNCHANGED entity
     \/ /\ UserExists(u)
        /\ entity' = [entity EXCEPT ![r] =
             [c \in DOMAIN users[u] |-> IF c \in DOMAIN body[r].set THEN body[r].set[c] ELSE users[u][c]]]
        /\ Goto(r, "saveUser")
        /\ UNCHANGED answer
  /\ UNCHANGED <<body, changed, userVars>>

\* The SELECT of save.
SelectUser(r) ==
  LET u == body[r].user IN
  /\ pc[r] = "saveUser"
  /\ \/ /\ UserExists(u)
        /\ changed' = [changed EXCEPT ![r] = {c \in DOMAIN entity[r] : entity[r][c] # users[u][c]}]
        /\ Goto(r, "updateUser")
     \/ /\ ~UserExists(u)
        /\ Goto(r, "reinsertUser")
        /\ UNCHANGED changed
  /\ UNCHANGED <<body, entity, answer, userVars>>

\* What the UPDATE makes of a row.
Patch(r, row) == [c \in DOMAIN row |-> IF c \in changed[r] THEN entity[r][c] ELSE row[c]]

\* FK_users_avatar_file, given the files that exist.
AvatarExists(row, files) == row.avatarFileId \in files \cup {None}

MarkPatched(r) ==
  patched' = IF "avatarFileId" \in DOMAIN body[r].set THEN patched \cup {body[r].user} ELSE patched

\* The write of save: UPDATE of the changed columns, of no row if it has gone.
UpdateUser(r, files) ==
  LET u == body[r].user
      row == Patch(r, users[u])
      valid == EmailFree(row.email, u) /\ AvatarExists(row, files)
  IN
  /\ pc[r] = "updateUser"
  /\ \/ /\ ~UserExists(u)
        /\ Finish(r, "ok")
        /\ UNCHANGED <<users, patched>>
     \/ /\ UserExists(u) /\ valid
        /\ users' = [users EXCEPT ![u] = row]
        /\ MarkPatched(r)
        /\ Finish(r, "ok")
     \/ /\ UserExists(u) /\ ~valid
        /\ Finish(r, "constraint")
        /\ UNCHANGED <<users, patched>>
  /\ UNCHANGED <<body, entity, changed, userIds>>

\* INSERT of the whole entity under its old id.
ReinsertUser(r, files) ==
  LET u == body[r].user
      valid == ~UserExists(u) /\ EmailFree(entity[r].email, u) /\ AvatarExists(entity[r], files)
  IN
  /\ pc[r] = "reinsertUser"
  /\ \/ /\ valid
        /\ users' = [users EXCEPT ![u] = entity[r]]
        /\ MarkPatched(r)
        /\ Finish(r, "ok")
     \/ /\ ~valid
        /\ Finish(r, "constraint")
        /\ UNCHANGED <<users, patched>>
  /\ UNCHANGED <<body, entity, changed, userIds>>

-----------------------------------------------------------------------------
(* Properties.                                                             *)

\* user.entity.ts, IDX_users_email_unique: whatever sign-ups and updates race,
\* an email has one user, so that login finds the one who signed up.
OneUserPerEmail ==
  \A u, v \in UserIds :
    UserExists(u) /\ UserExists(v) /\ users[u].email = users[v].email => u = v
=============================================================================
