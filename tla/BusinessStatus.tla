--------------------------- MODULE BusinessStatus ---------------------------
(***************************************************************************)
(* The status machine of a business: the table and the test of             *)
(* orchestrator/businessStatus.ts.  A forward move follows an edge;        *)
(* overrides and recoveries go anywhere and only compare the status.       *)
(***************************************************************************)

Statuses == {"discovered", "prequalified", "enriching", "needs_review", "qualified",
             "production_ready", "site_in_progress", "site_ready", "outreach_approved",
             "contacted", "replied", "meeting", "proposal", "won", "lost",
             "rejected", "duplicate", "closed", "do_not_contact"}

\* TRANSITIONS: the statuses one forward move away; a status without an entry
\* is an end of the workflow.
Transitions(from) ==
    CASE from = "discovered" -> {"prequalified", "rejected", "duplicate", "needs_review"}
      [] from = "prequalified" -> {"enriching", "rejected", "needs_review"}
      [] from = "enriching" -> {"needs_review", "qualified", "rejected"}
      [] from = "needs_review" -> {"enriching", "qualified", "rejected", "production_ready"}
      [] from = "qualified" -> {"production_ready", "enriching", "needs_review", "rejected"}
      [] from = "production_ready" -> {"site_in_progress"}
      [] from = "site_in_progress" -> {"site_ready", "needs_review"}
      [] from = "site_ready" -> {"outreach_approved", "needs_review", "rejected"}
      [] from = "outreach_approved" -> {"contacted"}
      [] from = "contacted" -> {"replied", "closed", "do_not_contact"}
      [] from = "replied" -> {"meeting", "proposal", "won", "lost", "do_not_contact"}
      [] from = "meeting" -> {"proposal", "won", "lost"}
      [] from = "proposal" -> {"won", "lost"}
      [] OTHER -> {}

\* isAllowedBusinessTransition: standing still is always allowed.
Allowed(from, to) == from = to \/ to \in Transitions(from)
=============================================================================
