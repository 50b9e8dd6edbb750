----------------------------- MODULE MCAuditLog -----------------------------
EXTENDS AuditLog
=============================================================================
