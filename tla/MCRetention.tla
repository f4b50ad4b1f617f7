------------------------------ MODULE MCRetention ------------------------------
EXTENDS Retention

CONSTANTS e1, e2, r1, r2
=============================================================================
