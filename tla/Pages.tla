-------------------------------- MODULE Pages --------------------------------
(***************************************************************************)
(* The page arithmetic of the listings: parsePagination of the handlers,   *)
(* and the start and the end that ListSnippets and SearchSnippets of both  *)
(* stores make of page and limit, in Go's ints, which wrap around.         *)
(*                                                                         *)
(* A number is a match's place, from 0, in the order that one request has  *)
(* made of its matches: newest first.  Snippets of the same CreatedAt have *)
(* no order of their own (the in-memory store sorts a map's values, which  *)
(* come in random order, and not stably), so two requests may number those *)
(* differently, and their pages together repeat one and leave out another. *)
(* What is said here is of the pages of one order.                         *)
(***************************************************************************)
EXTENDS Integers

CONSTANTS
  MaxInt,       \* 2^63 - 1
  DefaultLimit, \* 20
  MaxLimit,     \* 100
  Written       \* what clients write for page and limit

(* No slice is so long that MaxLimit more would not be an int. *)
Totals == 0 .. MaxInt - MaxLimit

ASSUME PagesAssumption ==
  /\ MaxInt \in Nat
  /\ MaxLimit \in 1 .. MaxInt
  /\ DefaultLimit \in 1 .. MaxLimit
  /\ Written \subseteq Int

Wrap(n) == ((n + MaxInt + 1) % (2 * (MaxInt + 1))) - (MaxInt + 1)

(* Atoi fails on what is no int, and the default is kept. *)
Page(p) == IF p \in 1 .. MaxInt THEN p ELSE 1

Limit(l) ==
  CASE l \notin 1 .. MaxInt -> DefaultLimit
    [] l \in 1 .. MaxLimit  -> l
    [] OTHER                -> MaxLimit

(* Mutant of First: pages are counted from 0. *)
FirstOfNext(page, limit) == Wrap(page * limit)

First(page, limit) == Wrap((page - 1) * limit)

(* The match after the last one of the page. *)
End(page, limit, total) ==
  LET end == Wrap(First(page, limit) + limit)
  IN IF end > total THEN total ELSE end

(* The places on the page.  A page that begins after the last match is      *)
(* empty, whatever its end.                                                 *)
OnPage(page, limit, total) ==
  IF First(page, limit) >= total THEN {}
                                 ELSE First(page, limit) .. End(page, limit, total) - 1

(* The slice expression all[start:end] panics; gin.Recovery answers 500.    *)
OutOfRange(page, limit, total) ==
  /\ First(page, limit) < total
  /\ ~(0 <= First(page, limit) /\ First(page, limit) <= End(page, limit, total))

-----------------------------------------------------------------------------
(* The matches before the page, as many as they would be, and as many as    *)
(* the bits of an int that are left of the product say.                     *)
Skipped(page, limit) == (page - 1) * limit
SkippedBits(page, limit) == Skipped(page, limit) % (2 * (MaxInt + 1))

(* What a listing of `total` matches does with a page and a limit:          *)
(*  - its slice is cut out of range exactly when the product has come out   *)
(*    negative, be the listing as short as it may;                          *)
(*  - or else the page is the `limit` matches from the remaining bits on;   *)
(*  - and as long as the product is an int, page k is the k-th one.         *)
CutAsWritten(page, limit, total) ==
  LET start == SkippedBits(page, limit)
  IN /\ OutOfRange(page, limit, total) <=> start > MaxInt
     /\ start <= MaxInt =>
          OnPage(page, limit, total)
            = {i \in 0 .. total - 1 : start <= i /\ i < start + limit}
     /\ Skipped(page, limit) <= MaxInt =>
          /\ ~OutOfRange(page, limit, total)
          /\ OnPage(page, limit, total)
               = {i \in 0 .. total - 1 : i \div limit = page - 1}

(* That, of whatever clients write for page and limit. *)
Exact(total) ==
  \A p, l \in Written : CutAsWritten(Page(p), Limit(l), total)

ExactTotals == {total \in Totals : Exact(total)}
=============================================================================
