--------------------------- MODULE MCQuotaUpdater ---------------------------
EXTENDS QuotaUpdater, TLC
PlusMinus == {1, -1}
=============================================================================
