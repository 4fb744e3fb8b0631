---------------------------- MODULE MCCaptureJobs ----------------------------
EXTENDS CaptureJobs

CONSTANTS w1, w2, r1, m1, m2, c1, c2
=============================================================================
