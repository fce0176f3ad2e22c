-------------------------- MODULE MCGlobalRuntime --------------------------
(* A small instance of GlobalRuntime.  MCOrders repeats a runtime and names
   Main, as a caller may; it leaves r1 out, so that r1 becomes an omitted
   stage when it is registered. *)
EXTENDS GlobalRuntime

CONSTANTS r1, r2, t1, t2

MCOrders == <<r2, Main, r2>>
=============================================================================
