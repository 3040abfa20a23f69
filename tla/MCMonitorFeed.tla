---------------------------- MODULE MCMonitorFeed ---------------------------
(* An instance of MonitorFeed: see MonitorFeed.cfg.                        *)
EXTENDS MonitorFeed
=============================================================================
