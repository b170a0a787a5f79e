------------------------------ MODULE MCSWMRG ------------------------------
(* Model checking SWMRG: threads that wait as long as it takes, and a mail    *)
(* browser, which checks an account without waiting for the lock.             *)
EXTENDS SWMRG
CONSTANTS a, b, c, browser
=============================================================================
