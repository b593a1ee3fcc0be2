------------------------------ MODULE UsersPage ------------------------------
(***************************************************************************)
(* The page of the proxy users (src/ui/src/routes/users): the list, the    *)
(* form that adds and changes a user, and the dialog that deletes one.     *)
(* The form is destroyed when its modal closes; one that is saving still   *)
(* reports its result to the page, which may show another form by then.    *)
(***************************************************************************)
EXTENDS WebCommon, Functions

CONSTANTS ProxyUsers,    \* user names
          FirstUsers,    \* those the server starts with
          MaxUserOps     \* bound: requests of the administrator

ASSUME UsersAssumption == FirstUsers \subseteq ProxyUsers /\ MaxUserOps \in Nat

VARIABLES users,     \* the state of the page
          usersNet,  \* its requests
          accounts   \* the users on the server, with their access

usersVars == <<users, usersNet, accounts>>

UsersInit ==
  /\ accounts = [u \in FirstUsers |-> TRUE]
  /\ usersNet = Send({}, "list", [by |-> "mount"])
  /\ users = [rows |-> <<>>, loading |-> TRUE, error |-> FALSE, ops |-> 0,
              form |-> None,           \* what the open form edits: a user or "new"
              savingUser |-> FALSE,
              pendingDelete |-> None, dialog |-> FALSE, deleting |-> FALSE,
              behind |-> FALSE]        \* two loads overlapped, one failed, or an answer was lost

(* What the markup offers: a modal covers the table.                       *)
usersOffered ==
  LET covered == users.form # None \/ users.dialog IN
  [menus   |-> IF covered THEN {} ELSE DOMAIN users.rows,
   add     |-> ~covered,
   refresh |-> ~covered /\ ~users.loading,
   submit  |-> users.form # None /\ ~users.savingUser,
   confirm |-> users.dialog /\ ~users.deleting]

Asked(op, args) ==
  /\ users.ops < MaxUserOps
  /\ usersNet' = Send(usersNet, op, args)
  /\ UNCHANGED accounts

(* loadUsers, called with net the other requests under way and by, the     *)
(* handler that awaits it.                                                 *)
loadUsers(ui, net, by) ==
  /\ users' = [ui EXCEPT !.loading = TRUE, !.error = FALSE,
                         !.behind = InFlight(net, {"list"})]
  /\ usersNet' = Send(net, "list", [by |-> by])

RefreshUsers ==
  /\ usersOffered.refresh /\ users.ops < MaxUserOps
  /\ loadUsers([users EXCEPT !.ops = @ + 1], usersNet, "refresh")
  /\ UNCHANGED accounts

addUser ==
  /\ usersOffered.add
  /\ users' = [users EXCEPT !.form = "new"]
  /\ UNCHANGED <<usersNet, accounts>>

editUser(u) ==
  /\ u \in usersOffered.menus
  /\ users' = [users EXCEPT !.form = u]
  /\ UNCHANGED <<usersNet, accounts>>

closeUserForm(ui) == [ui EXCEPT !.form = None, !.savingUser = FALSE]

CloseUserModal ==
  /\ users.form # None
  /\ users' = closeUserForm(users)
  /\ UNCHANGED <<usersNet, accounts>>

(* submit of the form, for a valid user name, password and access.         *)
submitUser(u, allow) ==
  /\ usersOffered.submit
  /\ users.form \in {"new", u}
  /\ Asked("save", [user |-> u, allow |-> allow, new |-> users.form = "new"])
  /\ users' = [users EXCEPT !.savingUser = TRUE, !.ops = @ + 1]

setAccess(u) ==
  /\ u \in usersOffered.menus
  /\ Asked("access", [user |-> u, allow |-> ~users.rows[u], new |-> FALSE])
  /\ users' = [users EXCEPT !.error = FALSE, !.ops = @ + 1]

requestDelete(u) ==
  /\ u \in usersOffered.menus
  /\ users' = [users EXCEPT !.pendingDelete = u, !.dialog = TRUE]
  /\ UNCHANGED <<usersNet, accounts>>

(* The cross closes the dialog; during a deletion the page keeps the name. *)
CloseUserDialog ==
  /\ users.dialog
  /\ users' = [users EXCEPT !.dialog = FALSE,
                            !.pendingDelete = IF users.deleting THEN @ ELSE None]
  /\ UNCHANGED <<usersNet, accounts>>

confirmUserDelete ==
  /\ usersOffered.confirm
  /\ users.pendingDelete # None
  /\ Asked("delete", [user |-> users.pendingDelete, allow |-> FALSE, new |-> FALSE])
  /\ users' = [users EXCEPT !.deleting = TRUE, !.error = FALSE, !.ops = @ + 1]

(* The server: names are unique, and only a user that exists is changed.   *)
ServeUsers(r) ==
  /\ ~r.done
  /\ CASE r.op = "list" -> UNCHANGED accounts
       [] r.op = "delete" -> accounts' = Restrict(accounts, DOMAIN accounts \ {r.args.user})
       [] OTHER ->
            /\ r.args.new # (r.args.user \in DOMAIN accounts)
            /\ accounts' = [u \in DOMAIN accounts \cup {r.args.user} |->
                              IF u = r.args.user THEN r.args.allow ELSE accounts[u]]
  /\ usersNet' = Served(usersNet, r, IF r.op = "list" THEN accounts ELSE Unread)
  /\ UNCHANGED users

(* The rest of each handler.                                               *)
UsersLoaded(r, ok) ==
  /\ r.op = "list" /\ (ok => r.done)
  /\ users' = [users EXCEPT !.loading = FALSE,
                            !.deleting = @ /\ r.args.by # "delete",
                            !.rows = IF ok THEN r.snap ELSE @,
                            !.error = @ \/ ~ok,
                            !.behind = @ \/ ~ok]
  /\ usersNet' = usersNet \ {r}
  /\ UNCHANGED accounts

Unconfirmed(r) == [users EXCEPT !.error = TRUE, !.behind = @ \/ r.done]

(* The event of the form, and its finally: both reach the page whichever   *)
(* form is open by then.                                                   *)
userSaved(r, ok) ==
  /\ r.op = "save" /\ (ok => r.done)
  /\ IF ok THEN loadUsers(closeUserForm(users), usersNet \ {r}, "save")
     ELSE /\ users' = [Unconfirmed(r) EXCEPT !.savingUser = FALSE]
          /\ usersNet' = usersNet \ {r}
  /\ UNCHANGED accounts

accessSet(r, ok) ==
  /\ r.op = "access" /\ (ok => r.done)
  /\ IF ok THEN loadUsers(users, usersNet \ {r}, "access")
     ELSE users' = Unconfirmed(r) /\ usersNet' = usersNet \ {r}
  /\ UNCHANGED accounts

\* Mutant: a failed deletion leaves the dialog busy.
UserDeleteStuck(r, ok) ==
  /\ r.op = "delete" /\ (ok => r.done)
  /\ IF ok THEN loadUsers([users EXCEPT !.pendingDelete = None, !.dialog = FALSE],
                       usersNet \ {r}, "delete")
     ELSE /\ users' = Unconfirmed(r)
          /\ usersNet' = usersNet \ {r}
  /\ UNCHANGED accounts

(* deleting stays set until the reload has ended.                          *)
userDeleted(r, ok) ==
  /\ r.op = "delete" /\ (ok => r.done)
  /\ IF ok THEN loadUsers([users EXCEPT !.pendingDelete = None, !.dialog = FALSE],
                       usersNet \ {r}, "delete")
     ELSE /\ users' = [Unconfirmed(r) EXCEPT !.deleting = FALSE]
          /\ usersNet' = usersNet \ {r}
  /\ UNCHANGED accounts

UsersNext ==
  \/ RefreshUsers \/ addUser \/ CloseUserModal \/ CloseUserDialog \/ confirmUserDelete
  \/ \E u \in DOMAIN users.rows : editUser(u) \/ setAccess(u) \/ requestDelete(u)
  \/ \E u \in ProxyUsers, allow \in BOOLEAN : submitUser(u, allow)
  \/ \E r \in usersNet :
       \/ ServeUsers(r)
       \/ \E ok \in BOOLEAN :
            UsersLoaded(r, ok) \/ userSaved(r, ok) \/ accessSet(r, ok) \/ userDeleted(r, ok)

(* Between requests the table shows the users of the server, and what      *)
(* shows as under way is.                                                  *)
UsersAgree == usersNet = {} /\ ~users.behind => users.rows = accounts

UsersBusy ==
  /\ users.loading => InFlight(usersNet, {"list"})
  /\ users.savingUser => InFlight(usersNet, {"save"})
  /\ users.deleting => \E r \in usersNet : r.op = "delete" \/ (r.op = "list" /\ r.args.by = "delete")
=============================================================================
