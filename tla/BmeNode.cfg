SPECIFICATION Spec
CONSTANTS
    Temperatures <- MCTemperatures
    Pressures <- MCPressures
    Humidities <- MCHumidities
    Samples <- MCSamples
INVARIANTS
    TypeOK SnipsReturned
PROPERTIES
    ReadingsStored MeasuresForever
