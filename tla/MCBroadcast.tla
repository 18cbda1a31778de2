---------------------------- MODULE MCBroadcast ----------------------------
(* Two producers and two sessions, of which one may be wedged; rings of    *)
(* two slots, which three messages overflow and wrap.                      *)
EXTENDS Broadcast, TLC

CONSTANTS hub, news, s1, s2

MCProducers == {hub, news}
MCSessions == {s1, s2}
MCMaxSends == (hub :> 2) @@ (news :> 1)
MCResponsive == {s1}

=============================================================================
