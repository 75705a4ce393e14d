--------------------------- MODULE MCQuotaAlerts ---------------------------
EXTENDS QuotaAlerts
=============================================================================
