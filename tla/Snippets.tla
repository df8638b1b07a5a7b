------------------------------ MODULE Snippets ------------------------------
(***************************************************************************)
(* The vocabulary of the snippet store: what a stored snippet, a request   *)
(* of the Store interface and an answer are (service/store.go,             *)
(* model/snippet.go).  Title, code, description and the two timestamps     *)
(* change together in every write, so they are one opaque Text.            *)
(***************************************************************************)
EXTENDS Naturals, FiniteSets

CONSTANTS
  Users,     \* ids of registered users
  Ids,       \* snippet ids (UUIDs)
  Texts,     \* what a client can write in a snippet
  ListKeys,  \* one cached page per listing: the paged list, a search
  None       \* the empty string, sql.ErrNoRows, an argument not given

(* model.Snippet.  An owner of None is the empty UserID of a seeded snippet *)
(* or of one whose user was removed (user_id is NULL).                      *)
Owners == Users \cup {None}
Row == [owner : Owners, text : Texts]

Keys == Ids \cup ListKeys
Tables == [Ids -> Row \cup {None}]
EmptyTable == [i \in Ids |-> None]
Stored(table) == {i \in Ids : table[i] # None}

(* A listing: the number of matches and the rows of the page. *)
Listings == [total : Nat, page : Tables]
Listing(total, page) == [total |-> total, page |-> page]

ASSUME SnippetsAssumption ==
  /\ IsFiniteSet(Ids)
  /\ None \notin Row \cup Ids \cup Users \cup Texts \cup ListKeys \cup Listings
  /\ Ids \cap ListKeys = {}

(* What a read of `key` finds in `table`. *)
View(key, table) ==
  IF key \in Ids THEN table[key]
                 ELSE Listing(Cardinality(Stored(table)), table)

(* UpdateSnippet and DeleteSnippet refuse a user other than the owner; a    *)
(* snippet without an owner is anyone's.                                    *)
MayWrite(row, user) == row.owner \in {None, user}

(* Writing a snippet replaces its contents and keeps its owner. *)
WithText(row, text) == [owner |-> row.owner, text |-> text]

(* Requests of the Store interface, as the handlers make them: reads carry  *)
(* no user (their routes are public), writes carry an authenticated one.    *)
Reads == {"get", "list"}
Inserts == {"create", "fork"}
OwnedWrites == {"update", "delete"}
Ops == Reads \cup Inserts \cup OwnedWrites

Request(op, key, user, text) ==
  [op |-> op, key |-> key, user |-> user, text |-> text]
NoRequest == Request("none", None, None, None)

Requests ==
  {Request("get", id, None, None) : id \in Ids}
    \cup {Request("list", key, None, None) : key \in ListKeys}
    \cup {Request("create", None, user, text) : user \in Users, text \in Texts}
    \cup {Request("update", id, user, text) :
             id \in Ids, user \in Users, text \in Texts}
    \cup {Request(op, id, user, None) :
             op \in {"delete", "fork"}, id \in Ids, user \in Users}

(* The HTTP answer the handler builds from (snippet, found, owned): 404 when *)
(* not found, 403 when found but not owned, else 200 or 201.  `failed` is    *)
(* not part of the answer: it records that a database error lies behind it.  *)
Statuses == {"OK", "NotFound", "Forbidden"}
Reply(status, val, failed) ==
  [status |-> status, val |-> val, failed |-> failed]
NoReply == Reply("none", None, FALSE)
Replies ==
  [status : Statuses, val : Row \cup {None} \cup Listings, failed : BOOLEAN]
=============================================================================
