---------------------------- MODULE MCChannelMux ----------------------------
(***************************************************************************)
(* Small instances of ChannelMux: two browser sockets, of two sessions or  *)
(* of one session whose page is reloaded, and a choice of channels.        *)
(***************************************************************************)
EXTENDS ChannelMux, TLC

CONSTANTS w1, w2, p1, p2

TwoSessions == (w1 :> p1) @@ (w2 :> p2)
OneSocket == (w1 :> p1)
OneSession == (w1 :> p1) @@ (w2 :> p1)

\* Two sessions: ids start at 1 in every page.
MixedPayload == (<<w1, 1>> :> "scan") @@ (<<w1, 2>> :> "oneshot") @@ (<<w2, 1>> :> "oneshot")
MixedChannels == DOMAIN MixedPayload

\* One page: a stream that may flood every queue, and commands answered beside it.
TaskPayload == (<<w1, 1>> :> "stream") @@ (<<w1, 2>> :> "interactive")
TaskChannels == DOMAIN TaskPayload

\* One session whose page is reloaded: the prefix stays, the ids start again.
ReloadPayload == (<<w1, 1>> :> "stream") @@ (<<w2, 1>> :> "stream")
ReloadChannels == DOMAIN ReloadPayload

\* A disk usage scan alone.
ScanPayload == (<<w1, 1>> :> "scan")
ScanChannels == DOMAIN ScanPayload
=============================================================================
