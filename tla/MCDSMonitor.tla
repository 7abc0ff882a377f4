---------------------------- MODULE MCDSMonitor ----------------------------
(* The device state monitor on a small instance.                           *)
EXTENDS DSMonitor, TLC

CONSTANTS gui, run

MCUsers == {gui, run}
MCUser == {gui}
=============================================================================
