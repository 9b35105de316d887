---------------------------- MODULE SessionLife ----------------------------
(***************************************************************************)
(* What a session is to everyone outside canonical-session: to its user,   *)
(* who may log out; to the authentication service, which exchanges its     *)
(* refresh token and is told when it ends; and to support, who reads how a *)
(* logout was settled.  There are no replicas, leases, claims, retries or  *)
(* late answers here.  WebSession implements this.                         *)
(*                                                                         *)
(*    active --> expired                                                   *)
(*        \       /                                                        *)
(*         ending --> signed_out --> gone                                  *)
(*               \--> given_up ------^                                     *)
(***************************************************************************)
EXTENDS Integers

CONSTANTS
    Grace,     \* TRUE if upstream still accepts the token before the last
    None

VARIABLES
    phase,     \* where the session is in its life
    live,      \* whether the session exists upstream
    issued,    \* the refresh token that upstream issued last
    stored     \* the one that is stored, or None when the session is gone

lifeVars == <<phase, live, issued, stored>>

InUse == phase \in {"active", "expired"}

LifeInit ==
    /\ phase = "active"
    /\ live = TRUE
    /\ issued = 0
    /\ stored = 0

\* A session in use reaches its time to live.
Expire ==
    /\ phase = "active"
    /\ phase' = "expired"
    /\ UNCHANGED <<live, issued, stored>>

\* Upstream exchanges a refresh token.  While a token is stored, that is the
\* one it exchanges, or one as old: nobody spends a token of which the
\* service has a newer one.
Exchange ==
    /\ live
    /\ phase # "gone" => \/ stored = issued
                         \/ Grace /\ stored + 1 = issued
    /\ issued' = issued + 1
    /\ UNCHANGED <<phase, live, stored>>

\* A newer token is stored, for a session that is in use or being signed out.
Store ==
    /\ phase \in {"active", "ending"}
    /\ stored' \in (stored + 1)..issued
    /\ UNCHANGED <<phase, live, issued>>

\* A logout, the end of an expired session, or the loss of its token.
End ==
    /\ InUse
    /\ phase' = "ending"
    /\ UNCHANGED <<live, issued, stored>>

\* Upstream ends the session, which nobody can use any more.
SignOut ==
    /\ live
    /\ ~InUse
    /\ live' = FALSE
    /\ UNCHANGED <<phase, issued, stored>>

\* The end of a session is settled once: it was signed out, which upstream
\* has acknowledged, or given up.
Settle ==
    /\ phase = "ending"
    /\ \/ ~live /\ phase' = "signed_out"
       \/ phase' = "given_up"
    /\ UNCHANGED <<live, issued, stored>>

\* What is settled may be forgotten.
Forget ==
    /\ phase \in {"signed_out", "given_up"}
    /\ phase' = "gone"
    /\ stored' = None
    /\ UNCHANGED <<live, issued>>

LifeNext == Expire \/ Exchange \/ Store \/ End \/ SignOut \/ Settle \/ Forget

LifeSpec == LifeInit /\ [][LifeNext]_lifeVars

-----------------------------------------------------------------------------
(* What follows from that.                                                 *)

\* While the session is kept, the stored token is never ahead of upstream,
\* and upstream is never further ahead of it than one exchange whose answer
\* was lost, or two if it grants a grace; a session in use exists upstream,
\* and one that is reported as signed out does not.
LifeIsSound ==
    phase # "gone" =>
    /\ stored <= issued
    /\ issued <= stored + (IF Grace THEN 2 ELSE 1)
    /\ InUse => live
    /\ phase = "signed_out" => ~live
=============================================================================
