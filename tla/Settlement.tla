----------------------------- MODULE Settlement -----------------------------
(***************************************************************************)
(* What the ledger promises about an order, whoever finalises it and       *)
(* however often: an order is opened once, and then settled at most once,  *)
(* either booked (its amount moves the position book exactly once) or      *)
(* voided (the book does not move).                                        *)
(***************************************************************************)
EXTENDS Naturals

CONSTANTS
  Orders,    (* identities of orders (one signature each)   *)
  Mints,     (* tokens other than USDC                      *)
  Requests,  (* what an order may ask for                   *)
  NoRequest  (* the request of an order not yet opened      *)

VARIABLES
  outcome,   (* [Orders -> {"new", "open", "booked", "void"}] *)
  request,   (* [Orders -> Requests \cup {NoRequest}]         *)
  book       (* [Mints -> Nat], the position book             *)

vars == <<outcome, request, book>>

(* The book after a request has been executed: a buy adds, a sell removes  *)
(* and never takes a position below zero.                                  *)
Applied(b, r) ==
  [b EXCEPT ![r.mint] = IF r.side = "buy" THEN @ + r.qty
                        ELSE IF @ >= r.qty THEN @ - r.qty ELSE 0]

Init ==
  /\ outcome = [o \in Orders |-> "new"]
  /\ request = [o \in Orders |-> NoRequest]
  /\ book = [m \in Mints |-> 0]

Open(o) ==
  /\ outcome[o] = "new"
  /\ outcome' = [outcome EXCEPT ![o] = "open"]
  /\ request'[o] \in Requests
  /\ request' = [request EXCEPT ![o] = request'[o]]
  /\ UNCHANGED book

Book(o) ==
  /\ outcome[o] = "open"
  /\ outcome' = [outcome EXCEPT ![o] = "booked"]
  /\ book' = Applied(book, request[o])
  /\ UNCHANGED request

Void(o) ==
  /\ outcome[o] = "open"
  /\ outcome' = [outcome EXCEPT ![o] = "void"]
  /\ UNCHANGED <<request, book>>

Next ==
  \E o \in Orders : Open(o) \/ Book(o) \/ Void(o)

Spec == Init /\ [][Next]_vars

=============================================================================
