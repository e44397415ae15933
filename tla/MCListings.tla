----------------------------- MODULE MCListings -----------------------------
(***************************************************************************)
(* The queries for checking module Listings with TLC: for every service a  *)
(* sort with ties, newest first where it is the default, and the filters   *)
(* that rows pass in and out of.                                           *)
(***************************************************************************)
EXTENDS Listings

MCQuery(service, sortBy, sortDir, filtered, inMemory) ==
  [service |-> service, sortBy |-> sortBy, sortDir |-> sortDir, sort |-> "price_asc",
   filtered |-> filtered, inMemory |-> inMemory]

MCQueries ==
  {MCQuery("products", "none", "desc", TRUE, FALSE),
   MCQuery("orders", "createdAt", "desc", FALSE, FALSE),
   MCQuery("orders", "status", "asc", FALSE, FALSE),
   MCQuery("users", "role", "asc", FALSE, FALSE),
   MCQuery("vouchers", "expiresAt", "asc", TRUE, TRUE),
   MCQuery("notifications", "createdAt", "desc", TRUE, FALSE),
   MCQuery("reviews", "createdAt", "desc", FALSE, FALSE)}
=============================================================================
