-------------------------- MODULE MCSandboxService --------------------------
\* Three processes, two checks, one byte more than is retained.
EXTENDS SandboxService
=============================================================================
