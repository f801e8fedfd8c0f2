----------------------------- MODULE MCAlerting -----------------------------
EXTENDS Alerting

CONSTANTS r1, r2, monitor

MCReport == {r1, r2}
MCOneReport == {r1}
=============================================================================
