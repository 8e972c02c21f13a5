------------------------------ MODULE RootCause ------------------------------
(***************************************************************************)
(* internal/engine/run.go: which of two workers' errors a parallel stage   *)
(* reports.  An error is concrete, or only the end of a context.           *)
(***************************************************************************)

Errors == {"none", "context", "concrete"}

\* Faulty: the first error to arrive is the one reported.
keepFirstError(current, next) == IF current = "none" THEN next ELSE current

\* A concrete error wins over the cancellation it caused, a first error of a
\* kind over a later one.
preferRootCause(current, next) ==
  IF next = "none" \/ current = "concrete" THEN current
  ELSE IF current = "context" /\ next = "context" THEN current ELSE next
===============================================================================
