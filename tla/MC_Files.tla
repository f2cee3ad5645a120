------------------------------ MODULE MC_Files ------------------------------
(* Small instances of Files for TLC.                                       *)
EXTENDS Files, TLC

CONSTANTS alice, mug, old, new

PresignBody(u, kind, p, n) ==
  [op |-> "presign", user |-> u, kind |-> kind, productId |-> p, sizeBytes |-> n]
CompleteBody(u, f, kind, p) ==
  [op |-> "complete", user |-> u, fileId |-> f, bindTo |-> kind, productId |-> p]
UpdateBody(column, value) ==
  [op |-> "update", user |-> alice, set |-> [c \in {column} |-> value]]
BothBody(e, f) ==
  [op |-> "update", user |-> alice, set |-> [email |-> e, avatarFileId |-> f]]

\* Files of both kinds by alice, completed by her as the right or the wrong
\* kind or by others; alice's email, avatar or both changed; sign-ups with the
\* email she may change to; uploads refused for a scope or a size.
MCInputs ==
  { [op |-> "signup", email |-> new], UpdateBody("email", new),
    PresignBody(alice, "avatar", None, 1), PresignBody(alice, "product-image", mug, 1),
    PresignBody(alice, "avatar", None, MaxImageBytes + 1) }
  \cup {PresignBody(u, "avatar", None, 1) : u \in UserIds}
  \cup {UpdateBody("avatarFileId", f) : f \in FileIds}
  \cup {BothBody(new, f) : f \in FileIds}
  \cup {CompleteBody(u, f, "avatar", None) : u \in UserIds, f \in FileIds}
  \cup {CompleteBody(alice, f, "product-image", mug) : f \in FileIds}

MCRoles == [u \in UserIds |-> {"user"}]
MCScopes == [u \in UserIds |-> IF u = alice THEN {"files:write"} ELSE {}]

MCUsers == [u \in UserIds |-> IF u = alice THEN [email |-> old, avatarFileId |-> None] ELSE None]

Symmetry == Permutations(Requests) \cup Permutations(FileIds) \cup Permutations(UserIds \ {alice})
=============================================================================
