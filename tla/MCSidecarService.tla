-------------------------- MODULE MCSidecarService --------------------------
\* SidecarService with the constants of its configurations. Liveness is checked
\* under it, so no symmetry is used.
EXTENDS SidecarService
=============================================================================
