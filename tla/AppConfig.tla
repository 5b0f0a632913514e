----------------------------- MODULE AppConfig -----------------------------
(***************************************************************************)
(* spinnaker.fromJSON: from what Spinnaker has on an application to a      *)
(* chaosmonkey.AppConfig, or to an error.                                  *)
(*                                                                         *)
(* What may be missing is a set of at most one element: the chaosMonkey    *)
(* attribute of a document, and in it enabled and the two times, which are *)
(* pointers in parsedChaosMonkey.  The others are zero when missing.  A    *)
(* document that is no JSON of the right shape counts as one without the   *)
(* attribute, since either is an error.                                    *)
(***************************************************************************)
EXTENDS Integers

KnownGroupings == {"app", "stack", "cluster"}

Enabled(cm) == cm.enabled = {TRUE}

\* A mistake: a mean of no days is accepted.
CompleteAtZero(cm) ==
  /\ cm.mean # {} /\ cm.min # {}
  /\ \A m \in cm.mean : m >= 0
  /\ cm.grouping \in KnownGroupings

Complete(cm) ==
  /\ cm.mean # {} /\ cm.min # {}
  /\ \A m \in cm.mean : m > 0
  /\ cm.grouping \in KnownGroupings

\* The region and the account of an exception; blank ones would match nothing.
ExceptionsAreUsable(cm) == \A ex \in cm.exceptions : ex.account # "" /\ ex.region # ""

Valid(cm) ==
  /\ cm.enabled # {}
  /\ Enabled(cm) => Complete(cm)
  /\ ExceptionsAreUsable(cm)

OrZero(time) == IF time = {} THEN 0 ELSE CHOOSE t \in time : TRUE

\* The AppConfig as a set of one element, or the empty set for an error.
FromJSON(document) ==
  {[enabled |-> Enabled(cm),
    regionsAreIndependent |-> cm.regionsAreIndependent,
    grouping |-> IF cm.grouping \in KnownGroupings THEN cm.grouping ELSE "cluster",
    mean |-> OrZero(cm.mean),
    min |-> OrZero(cm.min),
    exceptions |-> cm.exceptions] : cm \in {c \in document : Valid(c)}}
=============================================================================
