------------------------ MODULE MCCampaignOperations ------------------------
(***************************************************************************)
(* Requests that race: a command and its network retry, a command that     *)
(* competes for the same revision, a preview and a snapshot.               *)
(***************************************************************************)
EXTENDS CampaignOperations

CONSTANTS c1, c2, r1, r2, meta, a, x1, x2, x3, p, v

MCRequestOf == (c1 :> r1) @@ (c2 :> r2)
MCBase == (c1 :> 0) @@ (c2 :> 0)
MCWrites == (c1 :> {meta, a}) @@ (c2 :> {meta, a})

\* x2 is the network retry of x1; x3 executes what p previews; v is a snapshot.
MCCommandOf == [t \in CallId |-> IF t \in {x1, x2} THEN c1 ELSE c2]
MCKindOf == [t \in CallId |-> IF t = p THEN "preview"
                             ELSE IF t = v THEN "snapshot" ELSE "execute"]
=============================================================================
