----------------------------- MODULE AudioDevices -----------------------------
\* The microphones and loudspeakers of a user's machine, as the audio modules
\* know them.
CONSTANTS
    InputDevices, OutputDevices,
    NoDevice        \* for None

ASSUME DevicesAssumption == NoDevice \notin InputDevices /\ NoDevice \notin OutputDevices
=============================================================================
