---------------------------- MODULE EventChannel ----------------------------
(***************************************************************************)
(* The unbounded mpsc channel from the management server to the voice      *)
(* relay (server/src/event.rs, created by ManagementServer::new).          *)
(***************************************************************************)
EXTENDS Protocol

CONSTANT RelayListens   \* does the voice relay run?  If it could not bind its
                        \* socket its receiver is gone and sends are ignored
ASSUME ChannelAssumption == RelayListens \in BOOLEAN

VARIABLE events         \* events sent and not yet received, oldest first

\* `let _ = events_tx.send(e)`
Sent(e) == IF RelayListens THEN Append(events, e) ELSE events

Pending(h) == \E i \in DOMAIN events : events[i].id = h
=============================================================================
