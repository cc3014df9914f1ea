SPECIFICATION Spec
CONSTANTS
    Temperatures <- MCTemperatures
    Pressures <- MCPressures
    Humidities <- MCHumidities
    Samples <- MCSamples
PROPERTY TemperatureStored
