--------------------------- MODULE SessionPinStore ---------------------------
(***************************************************************************)
(* The statements of the session pin table (router.session_pins), one      *)
(* operator per SQL statement of db/queries/session_pins.sql.  A row pins  *)
(* the routing decision of one (session key, role).  A missing row is the  *)
(* Go zero value of sessionpin.Pin, which is what Get returns for it.      *)
(*                                                                         *)
(* pinned_until is kept as its relation to the clock ("past", "ttl" for    *)
(* the sliding hour, "never" for the user-forced sentinel); token counts   *)
(* and turn_count, which decide nothing here, are left out.                *)
(***************************************************************************)
EXTENDS Naturals

CONSTANTS Models,      \* catalog models
          Providers,   \* upstream providers
          NoModel,     \* the empty string in a model column
          NoProvider   \* the empty string in a provider column

ASSUME NamesAssumption == NoModel \notin Models /\ NoProvider \notin Providers

\* decision_reason, up to what the code compares it with
Reasons  == {"none", "scorer", "hmm", "force", "loop", "refusal", "evicted"}
Expiries == {"past", "ttl", "never"}

Row == [exists       : BOOLEAN,
        model        : Models \cup {NoModel},
        provider     : Providers \cup {NoProvider},
        pairModel    : Models \cup {NoModel},
        pairProvider : Providers \cup {NoProvider},
        reason       : Reasons,
        until        : Expiries,
        upErr        : Nat,
        ovErr        : Nat,
        disabled     : SUBSET (Providers \cup {NoProvider}),
        lastServed   : Models \cup {NoModel},
        endedAt      : Nat,
        everSwitched : BOOLEAN]

EmptyRow ==
  [exists |-> FALSE, model |-> NoModel, provider |-> NoProvider,
   pairModel |-> NoModel, pairProvider |-> NoProvider,
   reason |-> "none", until |-> "past", upErr |-> 0, ovErr |-> 0,
   disabled |-> {}, lastServed |-> NoModel, endedAt |-> 0,
   everSwitched |-> FALSE]

\* The columns an Upsert carries.
PinWrites == [model : Models \cup {NoModel}, provider : Providers \cup {NoProvider},
              pairModel : Models \cup {NoModel},
              pairProvider : Providers \cup {NoProvider},
              reason : Reasons, until : Expiries]

\* pinExpiry: a user-forced pin never lapses, every other pin slides one TTL.
PinExpiry(reason) == IF reason = "force" THEN "never" ELSE "ttl"

PinWrite(m, p, pm, pp, why) ==
  [model |-> m, provider |-> p, pairModel |-> pm, pairProvider |-> pp,
   reason |-> why, until |-> PinExpiry(why)]

\* expireSessionPin's row: no model, no provider, already expired.
ExpiredPin == [model |-> NoModel, provider |-> NoProvider, pairModel |-> NoModel,
               pairProvider |-> NoProvider, reason |-> "evicted", until |-> "past"]

\* loadPin's verdict: expired rows are misses, though their history is read.
Live(row) == row.exists /\ row.until # "past"

-----------------------------------------------------------------------------

\* Mutant: the counters outlive a change of model.
UpsertKeepingCounters(row, w) ==
  LET keep == w.pairModel = NoModel /\ row.model = w.model
  IN  [exists |-> TRUE, model |-> w.model, provider |-> w.provider,
       pairModel |-> IF keep THEN row.pairModel ELSE w.pairModel,
       pairProvider |-> IF keep THEN row.pairProvider ELSE w.pairProvider,
       reason |-> w.reason, until |-> w.until, upErr |-> row.upErr, ovErr |-> row.ovErr,
       disabled |-> row.disabled, lastServed |-> row.lastServed,
       endedAt |-> row.endedAt, everSwitched |-> row.everSwitched]

\* Mutant: an empty incoming pair always preserves the stored one.
UpsertKeepingPair(row, w) ==
  [row EXCEPT !.exists = TRUE, !.model = w.model, !.provider = w.provider,
              !.pairModel = IF w.pairModel # NoModel THEN w.pairModel ELSE @,
              !.pairProvider = IF w.pairModel # NoModel THEN w.pairProvider ELSE @,
              !.reason = w.reason, !.until = w.until,
              !.upErr = IF row.model = w.model THEN @ ELSE 0,
              !.ovErr = IF row.model = w.model THEN @ ELSE 0]

\* UpsertSessionPin.  Usage columns and disabled_providers are untouched.
Upsert(row, w) ==
  LET sameModel == row.model = w.model
      freshPair == w.pairModel # NoModel
  IN  [row EXCEPT
         !.exists       = TRUE,
         !.model        = w.model,
         !.provider     = w.provider,
         !.pairModel    = IF freshPair THEN w.pairModel
                          ELSE IF sameModel THEN @ ELSE NoModel,
         !.pairProvider = IF freshPair THEN w.pairProvider
                          ELSE IF sameModel THEN @ ELSE NoProvider,
         !.reason       = w.reason,
         !.until        = w.until,
         !.upErr        = IF sameModel THEN @ ELSE 0,
         !.ovErr        = IF sameModel THEN @ ELSE 0]

\* Mutant: the latch is overwritten with the writer's own evidence.
UpdateUsageFromCaller(row, served, by, prior, ever, now) ==
  IF ~row.exists THEN row
  ELSE [row EXCEPT !.provider = by, !.lastServed = served, !.endedAt = now,
                   !.everSwitched = ever \/ (prior # NoModel /\ prior # served)]

\* Mutant: only the last change of model is remembered.
UpdateUsageUnlatched(row, served, by, prior, ever, now) ==
  IF ~row.exists THEN row
  ELSE [row EXCEPT !.provider = by, !.lastServed = served, !.endedAt = now,
                   !.everSwitched = row.lastServed # NoModel /\ row.lastServed # served]

\* UpdateSessionPinUsage: a no-op when the row is missing.
UpdateUsage(row, served, by, prior, ever, now) ==
  IF ~row.exists THEN row
  ELSE [row EXCEPT
          !.provider     = by,
          !.lastServed   = served,
          !.endedAt      = now,
          !.everSwitched = \/ @
                           \/ ever
                           \/ row.lastServed # NoModel /\ row.lastServed # served
                           \/ prior # NoModel /\ prior # served]

IncrementUpstreamErrors(row) ==
  IF row.exists THEN [row EXCEPT !.upErr = @ + 1] ELSE row

\* Mutant: a success forgives one strike.
ForgiveUpstreamError(row) == [row EXCEPT !.upErr = @ - 1]

ResetUpstreamErrors(row) == [row EXCEPT !.upErr = 0]

IncrementOverloadErrors(row) ==
  IF row.exists THEN [row EXCEPT !.ovErr = @ + 1] ELSE row

ResetOverloadErrors(row) == [row EXCEPT !.ovErr = 0]

DisableProvider(row, p) ==
  IF row.exists THEN [row EXCEPT !.disabled = @ \cup {p}, !.ovErr = 0] ELSE row

=============================================================================
