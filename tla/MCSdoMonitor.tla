---------------------------- MODULE MCSdoMonitor ----------------------------
EXTENDS SdoMonitor, MCSdoLink

\* The monitor is started for all objects, or for emergencies alone.
MCFilters == {{}, {"EMCY"}}
=============================================================================
