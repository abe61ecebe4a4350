\* Frames of 2 samples, chunks of 2, and numbers that wrap at 4.
CONSTANTS
    mic = mic
    mic44 = mic44
    phones = phones
    box = box
    NoDevice = NoDevice
    InputDevices = {mic, mic44}
    OutputDevices = {phones, box}
    Resampled = {mic44}
    MaxRecordings = 2
    MaxBuffers = 2
    BufferSizes = {1, 3}
    CHUNK = 2
    ResampledSizes = {1, 3}
    FRAME = 2
    WORD = 4
    ChunkSize <- MCChunkSize
    SoundLengths = {1, 3}
    CallbackSizes = {1, 3}
    Values = {0, 1}
    Torn = Torn
    Default <- MCDefault
    Setups <- MCSetups
    MaxMessages = 4
SPECIFICATION SoundFairSpec
INVARIANTS SoundTypeOK EverySampleSent MutedIsSilent LastWins NothingUnsaved InputsCurrent
PROPERTIES Gapless RecordingsEnd
CHECK_DEADLOCK FALSE
