------------------------------- MODULE UserRow -------------------------------
(***************************************************************************)
(* A user as the database row, the cached JSON and the User aggregate all  *)
(* carry it, and what the domain methods of user.ts do to it.  Only the    *)
(* four fields that separate requests write stand for the row; the other   *)
(* columns travel with them in PrismaUserMapper.toPrisma.                  *)
(***************************************************************************)
CONSTANTS Names, Roles, Passwords

NoRow == [role |-> "none"]

Row == [name : Names, role : Roles, isActive : BOOLEAN, password : Passwords]

\* What a request asks for, validated by its controller's DTO.
EditInput == [kind : {"edit"}, name : Names]
             \union [kind : {"role"}, role : Roles]
             \union [kind : {"status"}]
             \union [kind : {"password"}, current : Passwords, new : Passwords]
             \union [kind : {"reset"}, new : Passwords]

NoteInput == [kind : {"login"}, current : Passwords]
             \union [kind : {"logout", "forgot"}]

Input == EditInput \union NoteInput \union [kind : {"read"}]

\* Mutant: a role edit that carries no other column.
EditedRoleAlone(row, in) ==
    CASE in.kind = "role"   -> [role |-> in.role]
      [] in.kind = "edit"   -> [row EXCEPT !.name = in.name]
      [] in.kind = "status" -> [row EXCEPT !.isActive = ~@]
      [] in.kind \in {"password", "reset"} -> [row EXCEPT !.password = in.new]

\* update, updateRole, toggleActive, updatePassword and resetPassword.  An edit
\* without a name asks for the one the row has; avatars and addresses are left
\* to the modules that write their tables.  A status edit
\* flips whatever the loaded aggregate says.
Edited(row, in) ==
    CASE in.kind = "edit"   -> [row EXCEPT !.name = in.name]
      [] in.kind = "role"   -> [row EXCEPT !.role = in.role]
      [] in.kind = "status" -> [row EXCEPT !.isActive = ~@]
      [] in.kind \in {"password", "reset"} -> [row EXCEPT !.password = in.new]

\* update raises its event if it changed something, the other methods always do.
Raises(row, in) == in.kind = "edit" => row.name # in.name

\* hashComparer.compare on the aggregate the request holds, and the isActive
\* check of a login; the other requests have nothing to check.
Permitted(row, in) ==
    CASE in.kind = "login"    -> row.isActive /\ row.password = in.current
      [] in.kind = "password" -> row.password = in.current
      [] OTHER -> TRUE
=============================================================================
