-------------------------- MODULE MCIntegrationTest --------------------------
(* The integration tests for TLC. *)
EXTENDS IntegrationTest, TLC

CONSTANTS s1, s2, s3, k1, k2, k3

TestKeys  == s1 :> k1 @@ s2 :> k2 @@ s3 :> k3
TestWants == s1 :> k2 @@ s2 :> k1 @@ s3 :> k2

\* s3 runs an older build
TestVersions == s1 :> 1 @@ s2 :> 1 @@ s3 :> 0

\* beyond the repository's tests: an older build is turned away, then the
\* two others connect
OlderBuildFirst ==
  [quit_after |-> None,
   calls |-> <<<<"run">>, <<"connect_sync", s3>>>> \o Tail(ConnectBoth(s1, s2))]

\* the peer never comes: connect_sync gives up after 100 ms and the handler
\* after two seconds
PeerNeverComes ==
  [quit_after |-> None,
   calls |-> <<<<"run">>, <<"connect_sync", s1>>, <<"block">>>>]

\* of the calls of a test only the waits that a block follows may end early
Tests ==
  {Ending(test, early) :
     test \in {ShouldSendValidAdvertise(s1),
               ShouldCorrectlyProveIdentityWithNonce(s1),
               ShouldSendPeerIdentificationToFirstPeer(s1, s2),
               ShouldCompletePeerHandshake(s1, s2),
               OlderBuildFirst},
     early \in SUBSET {"await_shutdown", "accept"}}
  \cup {Ending(PeerNeverComes, {"await"} \cup early) : early \in SUBSET Interruptible}

\* on Linux, without spurious wake-ups
LinuxTests == {Ending(ShouldCompletePeerHandshake(s1, s2), {})}
=============================================================================
