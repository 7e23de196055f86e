------------------------------- MODULE MCHost -------------------------------
EXTENDS Host

\* a driver and the broker: a component with a device and one without
MCComponents == <<"wfp", "broker">>
MCDrivers == {"wfp"}
=============================================================================
