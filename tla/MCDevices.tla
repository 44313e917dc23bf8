----------------------------- MODULE MCDevices ------------------------------
EXTENDS Devices

MCOrder == <<"wifi", "cable">>
=============================================================================
